---- MODULE Spec2Model ----
(***************************************************************************)
(* Model of kernel-updater: the versioned configuration (Config::new), the *)
(* stage operations and the pipeline runner (main / run).                  *)
(*                                                                         *)
(* Text is modelled as a sequence of one-character strings so that         *)
(* formatting and joining are computed as the code computes them.          *)
(* Option<T> is modelled as a sequence of length 0 (None) or 1 (Some).     *)
(***************************************************************************)
EXTENDS Integers, Sequences, FiniteSets, TLC

(***************************************************************************)
(* Bounds of the model                                                     *)
(***************************************************************************)
MaxMajor == 10
MaxMinor == 15
MaxPatch == 1
MaxExitStatus == 1
MaxCpus == 2

Majors == {MaxMajor - 1, MaxMajor}
Minors == {MaxMinor - 1, MaxMinor}
Patches == 0 .. MaxPatch

(***************************************************************************)
(* Text helpers                                                            *)
(***************************************************************************)
None == << >>
Some(x) == << x >>
IsSome(o) == Len(o) = 1
IsNone(o) == Len(o) = 0
Unwrap(o) == o[1]

DigitChar(d) ==
    CASE d = 0 -> "0" [] d = 1 -> "1" [] d = 2 -> "2" [] d = 3 -> "3"
      [] d = 4 -> "4" [] d = 5 -> "5" [] d = 6 -> "6" [] d = 7 -> "7"
      [] d = 8 -> "8" [] d = 9 -> "9"

\* Display of an unsigned integer: decimal, no leading zeros.
RECURSIVE U32Display(_)
U32Display(n) ==
    IF n < 10 THEN << DigitChar(n) >>
    ELSE U32Display(n \div 10) \o << DigitChar(n % 10) >>

\* [&str]::join(sep)
RECURSIVE JoinWith(_, _)
JoinWith(parts, sep) ==
    IF Len(parts) = 0 THEN << >>
    ELSE IF Len(parts) = 1 THEN parts[1]
    ELSE parts[1] \o sep \o JoinWith(Tail(parts), sep)

\* PathBuf::join: an absolute component replaces the base.
PathJoin(base, comp) ==
    IF Len(comp) > 0 /\ comp[1] = "/" THEN comp
    ELSE IF Len(base) > 0 /\ base[Len(base)] = "/" THEN base \o comp
    ELSE base \o << "/" >> \o comp

Dot == << "." >>
Dash == << "-" >>
Slash == << "/" >>
Space == << " " >>

(***************************************************************************)
(* Version (version.rs)                                                    *)
(***************************************************************************)
Version == [major : Majors, minor : Minors, patch : Patches]

\* Mutant of VersionLt: the fields are compared in the order patch, minor, major.
VersionLtPatchFirst(a, b) ==
    \/ a.patch < b.patch
    \/ a.patch = b.patch /\ a.minor < b.minor
    \/ a.patch = b.patch /\ a.minor = b.minor /\ a.major < b.major

\* derive(PartialOrd, Ord): lexicographic on (major, minor, patch)
VersionLt(a, b) ==
    \/ a.major < b.major
    \/ a.major = b.major /\ a.minor < b.minor
    \/ a.major = b.major /\ a.minor = b.minor /\ a.patch < b.patch

VersionLe(a, b) == VersionLt(a, b) \/ a = b

\* Mutant of VersionDisplay: minor and patch change places.
VersionDisplayPatchBeforeMinor(v) ==
    U32Display(v.major) \o Dot \o U32Display(v.patch) \o Dot \o U32Display(v.minor)

\* impl Display for Version: "{}.{}.{}"
VersionDisplay(v) ==
    U32Display(v.major) \o Dot \o U32Display(v.minor) \o Dot \o U32Display(v.patch)

(***************************************************************************)
(* Arguments (args.rs)                                                     *)
(***************************************************************************)
Commands == {"KernelCompile", "KernelInstall", "DkmsInstall"}
OptCommands == {None} \cup {Some(c) : c \in Commands}
Downloader == {"Curl", "Wget"}

ClaudioFSR == << "C", "l", "a", "u", "d", "i", "o", "F", "S", "R" >>
Suffixes == {ClaudioFSR, << "X" >>}

Arguments ==
    [command : OptCommands,
     downloader : Downloader,
     suffix : Suffixes,
     new : Version,
     old : {None} \cup {Some(v) : v \in Version}]

(***************************************************************************)
(* Errors (error.rs)                                                       *)
(***************************************************************************)
IoError == [kind |-> "IoError"]
CommandExecutionError(command, argsString, status) ==
    [kind |-> "CommandExecutionError", command |-> command,
     args |-> argsString, status |-> status]
Utf8OutputError(command) == [kind |-> "Utf8OutputError", command |-> command]
VersionComparisonError(new, old) ==
    [kind |-> "VersionComparisonError", new |-> new, old |-> old]
MissingRequiredArgument(name, command) ==
    [kind |-> "MissingRequiredArgument", argument_name |-> name, command |-> command]
DkmsModuleNotFound == [kind |-> "DkmsModuleNotFound"]
DkmsStatusParseError(output) == [kind |-> "DkmsStatusParseError", output |-> output]
KernelConfigNotFound(path) == [kind |-> "KernelConfigNotFound", path |-> path]
KernelNotConfigured(srcDir, version) ==
    [kind |-> "KernelNotConfigured", src_dir |-> srcDir, version |-> version]
KernelBinaryNotFound(path, srcDir, version) ==
    [kind |-> "KernelBinaryNotFound", path |-> path, src_dir |-> srcDir,
     version |-> version]

Ok(v) == [ok |-> TRUE, val |-> v]
Err(e) == [ok |-> FALSE, val |-> e]
Unit == << >>

(***************************************************************************)
(* Config::new (config.rs)                                                 *)
(***************************************************************************)
KernelUrlBase ==
    << "h", "t", "t", "p", "s", ":", "/", "/", "c", "d", "n", ".", "k", "e", "r",
       "n", "e", "l", ".", "o", "r", "g", "/", "p", "u", "b", "/", "l", "i", "n",
       "u", "x", "/", "k", "e", "r", "n", "e", "l", "/", "v", "6", ".", "x" >>
LibModules == << "/", "l", "i", "b", "/", "m", "o", "d", "u", "l", "e", "s" >>
KernelSrcBase == LibModules
KernelModuleBase == LibModules
KernelConfigBase == LibModules
BootDir == << "/", "b", "o", "o", "t" >>
LinuxDash == << "l", "i", "n", "u", "x", "-" >>
TarXz == << ".", "t", "a", "r", ".", "x", "z" >>
ConfigDash == << "c", "o", "n", "f", "i", "g", "-" >>
VmlinuzDash == << "v", "m", "l", "i", "n", "u", "z", "-" >>
OldArgName == << "-", "-", "o", "l", "d" >>

MajorMinor(v) == U32Display(v.major) \o Dot \o U32Display(v.minor)

\* Mutant of VersionOrderViolated: `<` for `<=`, equal versions pass.
VersionOrderViolatedStrict(a) == IsSome(a.old) /\ VersionLt(a.new, Unwrap(a.old))

\* Validation 1: an old version is given and new <= old.
VersionOrderViolated(a) == IsSome(a.old) /\ VersionLe(a.new, Unwrap(a.old))

\* Mutant of RequiresOld: the default operation (no subcommand) is forgotten.
RequiresOldDkmsOnly(command) == command = Some("DkmsInstall")

\* Validation 2: the commands that require --old.
RequiresOld(command) == command = Some("DkmsInstall") \/ command = None

ConfigFilePath(suffix) == PathJoin(KernelConfigBase, ConfigDash \o suffix)

\* Mutant of KernelSrcDirName: the patch component is always written.
KernelSrcDirNameWithPatch(new) == LinuxDash \o VersionDisplay(new)

KernelSrcDirName(new) ==
    IF new.patch = 0 THEN LinuxDash \o MajorMinor(new)
    ELSE LinuxDash \o VersionDisplay(new)

\* Mutant of TarballName: the patch component is always written.
TarballNameWithPatch(new) == LinuxDash \o VersionDisplay(new) \o TarXz

TarballName(new) ==
    IF new.patch = 0 THEN LinuxDash \o MajorMinor(new) \o TarXz
    ELSE LinuxDash \o VersionDisplay(new) \o TarXz

DownloadLink(new) == KernelUrlBase \o Slash \o TarballName(new)

\* Mutant of KernelIdentNameNew: the patch component is never written.
KernelIdentNameNewTruncated(new, suffix) == MajorMinor(new) \o Dash \o suffix

KernelIdentNameNew(new, suffix) ==
    IF new.patch = 0 THEN MajorMinor(new) \o Dash \o suffix
    ELSE VersionDisplay(new) \o Dash \o suffix

KernelIdentNameOld(old, suffix) ==
    IF IsSome(old) THEN Some(VersionDisplay(Unwrap(old)) \o Dash \o suffix)
    ELSE None

\* Mutant of VmlinuzInstallPath: the patch component is written too.
VmlinuzInstallPathWithPatch(new) == PathJoin(BootDir, VmlinuzDash \o VersionDisplay(new))

VmlinuzInstallPath(new) == PathJoin(BootDir, VmlinuzDash \o MajorMinor(new))

ConfigNew(a) ==
    IF VersionOrderViolated(a)
    THEN Err(VersionComparisonError(a.new, Unwrap(a.old)))
    ELSE IF RequiresOld(a.command) /\ IsNone(a.old)
    THEN Err(MissingRequiredArgument(OldArgName, a.command))
    ELSE Ok([version_old |-> a.old,
             version_new |-> a.new,
             command |-> a.command,
             kernel_url_base |-> KernelUrlBase,
             kernel_src_base |-> KernelSrcBase,
             kernel_module_base |-> KernelModuleBase,
             kernel_config_base |-> KernelConfigBase,
             custom_kernel_suffix |-> a.suffix,
             config_file_path |-> ConfigFilePath(a.suffix),
             kernel_src_dir_name |-> KernelSrcDirName(a.new),
             kernel_src_dir_path |-> PathJoin(KernelSrcBase, KernelSrcDirName(a.new)),
             tarball_name |-> TarballName(a.new),
             download_link |-> DownloadLink(a.new),
             kernel_ident_name_new |-> KernelIdentNameNew(a.new, a.suffix),
             kernel_ident_name_old |-> KernelIdentNameOld(a.old, a.suffix),
             vmlinuz_install_path |-> VmlinuzInstallPath(a.new),
             downloader |-> a.downloader])

(***************************************************************************)
(* Literal program names, arguments and file names used by the stages      *)
(***************************************************************************)
ProgDkms ==
    << "d", "k", "m", "s" >>
ArgStatus ==
    << "s", "t", "a", "t", "u", "s" >>
ArgInstall ==
    << "i", "n", "s", "t", "a", "l", "l" >>
ArgForce ==
    << "-", "-", "f", "o", "r", "c", "e" >>
ArgK ==
    << "-", "k" >>
ArgRemove ==
    << "r", "e", "m", "o", "v", "e" >>
NvidiaSlash ==
    << "n", "v", "i", "d", "i", "a", "/" >>
Nvidia ==
    << "n", "v", "i", "d", "i", "a" >>
ProgCurl ==
    << "c", "u", "r", "l" >>
ArgFL ==
    << "-", "f", "L" >>
ArgO ==
    << "-", "o" >>
ProgWget ==
    << "w", "g", "e", "t" >>
ProgTar ==
    << "t", "a", "r" >>
ArgJxvf ==
    << "-", "J", "x", "v", "f" >>
ProgCp ==
    << "/", "u", "s", "r", "/", "b", "i", "n", "/", "c", "p" >>
DotConfig ==
    << ".", "c", "o", "n", "f", "i", "g" >>
ProgMake ==
    << "m", "a", "k", "e" >>
ArgOlddefconfig ==
    << "o", "l", "d", "d", "e", "f", "c", "o", "n", "f", "i", "g" >>
ArgJ ==
    << "-", "j" >>
ArgModulesInstall ==
    << "m", "o", "d", "u", "l", "e", "s", "_", "i", "n", "s", "t", "a", "l",
       "l" >>
BzImagePath ==
    << "a", "r", "c", "h", "/", "x", "8", "6", "/", "b", "o", "o", "t", "/",
       "b", "z", "I", "m", "a", "g", "e" >>
BuildName ==
    << "b", "u", "i", "l", "d" >>
SourceName ==
    << "s", "o", "u", "r", "c", "e" >>
ProgMkinitcpio ==
    << "m", "k", "i", "n", "i", "t", "c", "p", "i", "o" >>
ArgP ==
    << "-", "p" >>
Linux ==
    << "l", "i", "n", "u", "x" >>
Underscore ==
    << "_" >>
ProgUpdateGrub ==
    << "u", "p", "d", "a", "t", "e", "-", "g", "r", "u", "b" >>

(***************************************************************************)
(* `dkms status` outputs the environment may produce, and the output of    *)
(* `dkms remove`.  None of them holds a carriage return.                   *)
(***************************************************************************)
StatusInstalled ==
    << "n", "v", "i", "d", "i", "a", "/", "5", "5", "0", ".", "1", "3", "5",
       ",", " ", "6", ".", "1", "1", ".", "1", "0", "-", "2", "-", "M", "A",
       "N", "J", "A", "R", "O", ",", " ", "x", "8", "6", "_", "6", "4", ":",
       " ", "i", "n", "s", "t", "a", "l", "l", "e", "d", "\n" >>
StatusIndented ==
    << "v", "b", "o", "x", "h", "o", "s", "t", "/", "7", ".", "0", ",", " ",
       "9", ".", "1", "4", ".", "1", "-", "X", ":", " ", "i", "n", "s", "t",
       "a", "l", "l", "e", "d", "\n", " ", " ", "n", "v", "i", "d", "i", "a",
       "/", "5", "6", "0", ".", "3", "5", ",", " ", "9", ".", "1", "4", ".",
       "1", "-", "X", ":", " ", "i", "n", "s", "t", "a", "l", "l", "e", "d" >>
StatusNoComma ==
    << "n", "v", "i", "d", "i", "a", "/", "5", "5", "0", ".", "1", "3", "5",
       "\n" >>
StatusOtherModule ==
    << "v", "b", "o", "x", "h", "o", "s", "t", "/", "7", ".", "0", ",", " ",
       "9", ".", "1", "4", ".", "1", "-", "X", ":", " ", "i", "n", "s", "t",
       "a", "l", "l", "e", "d", "\n" >>
StatusNvidiaElsewhere ==
    << "n", "v", "i", "d", "i", "a", "-", "o", "p", "e", "n", "/", "5", "6",
       "0", ".", "3", "5", ",", " ", "9", ".", "1", "4", ".", "1", "-", "X",
       ":", " ", "i", "n", "s", "t", "a", "l", "l", "e", "d", "\n" >>
StatusEmpty == << >>
RemoveOutput ==
    << "D", "e", "l", "e", "t", "i", "n", "g", " ", "n", "v", "i", "d", "i",
       "a", "/", "5", "5", "0", ".", "1", "3", "5", "\n" >>

StatusOutputs ==
    {StatusInstalled, StatusIndented, StatusNoComma, StatusOtherModule,
     StatusNvidiaElsewhere, StatusEmpty}
RemoveOutputs == {StatusEmpty, RemoveOutput}

\* Lines that further status outputs are made of: driver entries of two
\* versions, a driver entry that was added but not built (no comma), entries of
\* another module, one of them on a kernel whose identifier mentions the driver,
\* and driver entries whose version token holds a slash or is followed by a space.
LineInstalled ==
    << "n", "v", "i", "d", "i", "a", "/", "5", "5", "0", ".", "1", "3",
       "5", ",", " ", "9", ".", "1", "4", ".", "1", "-", "X", ",", " ",
       "x", "8", "6", "_", "6", "4", ":", " ", "i", "n", "s", "t", "a",
       "l", "l", "e", "d" >>
LineInstalledNewer ==
    << "n", "v", "i", "d", "i", "a", "/", "5", "6", "0", ".", "3", "5",
       ",", " ", "9", ".", "1", "4", ".", "1", "-", "X", ",", " ", "x",
       "8", "6", "_", "6", "4", ":", " ", "i", "n", "s", "t", "a", "l",
       "l", "e", "d" >>
LineAdded ==
    << "n", "v", "i", "d", "i", "a", "/", "5", "5", "0", ".", "1", "3",
       "5", ":", " ", "a", "d", "d", "e", "d" >>
LineOtherModule ==
    << "v", "b", "o", "x", "h", "o", "s", "t", "/", "7", ".", "0", ",",
       " ", "9", ".", "1", "4", ".", "1", "-", "X", ",", " ", "x", "8",
       "6", "_", "6", "4", ":", " ", "i", "n", "s", "t", "a", "l", "l",
       "e", "d" >>
LineOtherOnNvidiaKernel ==
    << "v", "b", "o", "x", "h", "o", "s", "t", "/", "7", ".", "0", ",",
       " ", "9", ".", "1", "4", ".", "1", "-", "n", "v", "i", "d", "i",
       "a", ",", " ", "x", "8", "6", "_", "6", "4", ":", " ", "i", "n",
       "s", "t", "a", "l", "l", "e", "d" >>
LineSlashInVersion ==
    << "n", "v", "i", "d", "i", "a", "/", "5", "5", "0", ".", "1", "3",
       "5", "/", "2", ",", " ", "9", ".", "1", "4", ".", "1", "-", "X",
       ",", " ", "x", "8", "6", "_", "6", "4", ":", " ", "i", "n", "s",
       "t", "a", "l", "l", "e", "d" >>
LineSpaceBeforeComma ==
    << "n", "v", "i", "d", "i", "a", "/", "5", "5", "0", ".", "1", "3",
       "5", " ", ",", " ", "9", ".", "1", "4", ".", "1", "-", "X", ",",
       " ", "x", "8", "6", "_", "6", "4", ":", " ", "i", "n", "s", "t",
       "a", "l", "l", "e", "d" >>

StatusLines ==
    {LineInstalled, LineInstalledNewer, LineAdded, LineOtherModule,
     LineOtherOnNvidiaKernel, LineSlashInVersion, LineSpaceBeforeComma}

MaxStatusLines == 3

\* Every line of a status output ends with a newline.
RECURSIVE Unlines(_)
Unlines(lines) ==
    IF Len(lines) = 0 THEN << >>
    ELSE lines[1] \o << "\n" >> \o Unlines(Tail(lines))

StatusTexts ==
    StatusOutputs
      \cup UNION {{Unlines(ls) : ls \in [1 .. k -> StatusLines]} :
                    k \in 0 .. MaxStatusLines}

(***************************************************************************)
(* Text operations of the standard library used by get_nvidia_version      *)
(***************************************************************************)
StartsWith(s, p) == Len(s) >= Len(p) /\ SubSeq(s, 1, Len(p)) = p

Contains(s, p) ==
    \E i \in 1 .. (Len(s) - Len(p) + 1) : SubSeq(s, i, i + Len(p) - 1) = p

IsWhitespace(c) == c \in {" ", "\t", "\n"}

RECURSIVE TrimStart(_)
TrimStart(s) ==
    IF Len(s) > 0 /\ IsWhitespace(s[1]) THEN TrimStart(Tail(s)) ELSE s

RECURSIVE TrimEnd(_)
TrimEnd(s) ==
    IF Len(s) > 0 /\ IsWhitespace(s[Len(s)])
    THEN TrimEnd(SubSeq(s, 1, Len(s) - 1)) ELSE s

Trim(s) == TrimEnd(TrimStart(s))

\* str::split(chars): the pieces between separators; always at least one piece.
\* The cuts are the positions of the separators, with one before the first
\* character and one after the last.
Split(s, seps) ==
    LET cuts == {0} \cup {i \in 1 .. Len(s) : s[i] \in seps} \cup {Len(s) + 1}
        Cut(k) == CHOOSE c \in cuts : Cardinality({d \in cuts : d < c}) = k
    IN  [k \in 1 .. (Cardinality(cuts) - 1) |->
           SubSeq(s, Cut(k - 1) + 1, Cut(k) - 1)]

\* str::lines(): split at "\n"; a trailing empty piece is not a line.
Lines(s) ==
    LET pieces == Split(s, {"\n"})
    IN  IF Len(pieces[Len(pieces)]) = 0
        THEN SubSeq(pieces, 1, Len(pieces) - 1) ELSE pieces

(***************************************************************************)
(* Version::from_str (version.rs) and u32::from_str of the standard        *)
(* library, which it applies to each trimmed component.                    *)
(***************************************************************************)
VersionParseIntError(source) == [kind |-> "VersionParseIntError", source |-> source]
VersionParseFormatError(input) == [kind |-> "VersionParseFormatError", input |-> input]

IsDigit(c) == c \in {"0", "1", "2", "3", "4", "5", "6", "7", "8", "9"}

DigitValue(c) ==
    CASE c = "0" -> 0 [] c = "1" -> 1 [] c = "2" -> 2 [] c = "3" -> 3
      [] c = "4" -> 4 [] c = "5" -> 5 [] c = "6" -> 6 [] c = "7" -> 7
      [] c = "8" -> 8 [] c = "9" -> 9

\* u32::MAX = 4294967295, as decimal digits.
U32MaxDigits == << "4", "2", "9", "4", "9", "6", "7", "2", "9", "5" >>

RECURSIVE StripLeadingZeros(_)
StripLeadingZeros(ds) ==
    IF Len(ds) > 1 /\ ds[1] = "0" THEN StripLeadingZeros(Tail(ds)) ELSE ds

\* a > b for two digit strings of the same length
RECURSIVE DigitsGreater(_, _)
DigitsGreater(a, b) ==
    IF Len(a) = 0 THEN FALSE
    ELSE IF a[1] # b[1] THEN DigitValue(a[1]) > DigitValue(b[1])
    ELSE DigitsGreater(Tail(a), Tail(b))

\* The checked multiply-and-add of the parser overflows: the number is above u32::MAX.
ExceedsU32(ds) ==
    LET n == StripLeadingZeros(ds)
    IN  \/ Len(n) > Len(U32MaxDigits)
        \/ Len(n) = Len(U32MaxDigits) /\ DigitsGreater(n, U32MaxDigits)

RECURSIVE DigitsToNumber(_, _)
DigitsToNumber(ds, acc) ==
    IF Len(ds) = 0 THEN acc
    ELSE DigitsToNumber(Tail(ds), acc * 10 + DigitValue(ds[1]))

ParsedInt(n) == [ok |-> TRUE, number |-> n, error |-> "none"]
ParseIntError(kind) == [ok |-> FALSE, number |-> 0, error |-> kind]

\* The digits are read left to right: the first character that is no digit is an
\* InvalidDigit, and a prefix whose value is above u32::MAX is a PosOverflow.
RECURSIVE ParseDigits(_, _)
ParseDigits(ds, n) ==
    IF n > Len(ds) THEN ParsedInt(DigitsToNumber(ds, 0))
    ELSE IF ~IsDigit(ds[n]) THEN ParseIntError("InvalidDigit")
    ELSE IF ExceedsU32(SubSeq(ds, 1, n)) THEN ParseIntError("PosOverflow")
    ELSE ParseDigits(ds, n + 1)

\* str::parse::<u32>(): an empty string is Empty, a lone sign is InvalidDigit, one
\* leading "+" is accepted, "-" is no digit of an unsigned type.
ParseU32(src) ==
    IF Len(src) = 0 THEN ParseIntError("Empty")
    ELSE IF src \in {<< "+" >>, << "-" >>} THEN ParseIntError("InvalidDigit")
    ELSE ParseDigits(IF src[1] = "+" THEN Tail(src) ELSE src, 1)

\* Mutant of VersionFromStr: the number of components is checked before they are parsed.
VersionFromStrCountFirst(s) ==
    LET parts == Split(s, {"."})
        components == [i \in 1 .. Len(parts) |-> ParseU32(Trim(parts[i]))]
        failed == {i \in 1 .. Len(parts) : ~components[i].ok}
    IN  IF Len(parts) # 3 THEN Err(VersionParseFormatError(s))
        ELSE IF failed # {}
        THEN Err(VersionParseIntError(
                 components[CHOOSE i \in failed : \A j \in failed : i <= j].error))
        ELSE Ok([major |-> components[1].number, minor |-> components[2].number,
                 patch |-> components[3].number])

\* Mutant of VersionFromStr: extra components are accepted and ignored.
VersionFromStrAtLeastThree(s) ==
    LET parts == Split(s, {"."})
        components == [i \in 1 .. Len(parts) |-> ParseU32(Trim(parts[i]))]
        failed == {i \in 1 .. Len(parts) : ~components[i].ok}
    IN  IF failed # {}
        THEN Err(VersionParseIntError(
                 components[CHOOSE i \in failed : \A j \in failed : i <= j].error))
        ELSE IF Len(components) >= 3
        THEN Ok([major |-> components[1].number, minor |-> components[2].number,
                 patch |-> components[3].number])
        ELSE Err(VersionParseFormatError(s))

\* Version::from_str, lines 17-36: every component is trimmed and parsed, the
\* first component that fails ends the collect, and only then is the count checked.
VersionFromStr(s) ==
    LET parts == Split(s, {"."})
        components == [i \in 1 .. Len(parts) |-> ParseU32(Trim(parts[i]))]
        failed == {i \in 1 .. Len(parts) : ~components[i].ok}
    IN  IF failed # {}
        THEN Err(VersionParseIntError(
                 components[CHOOSE i \in failed : \A j \in failed : i <= j].error))
        ELSE IF Len(components) = 3
        THEN Ok([major |-> components[1].number, minor |-> components[2].number,
                 patch |-> components[3].number])
        ELSE Err(VersionParseFormatError(s))

(***************************************************************************)
(* External-process and filesystem boundary (utils.rs, std::fs).           *)
(* A call has a set of possible outcomes; an outcome is the log of the     *)
(* operations attempted and the Result the call returns.                   *)
(***************************************************************************)
Entry(op, target, args, outcome, code) ==
    [op |-> op, target |-> target, args |-> args, outcome |-> outcome, code |-> code]

Outcome(log, res) == [log |-> log, res |-> res]

\* Mutant of AndThen: when a later call fails, what the earlier calls did is
\* removed again before the error is returned.
AndThenRollingBack(first, rest) ==
    {a \in first : ~a.res.ok}
      \cup {Outcome(ab[1].log \o ab[2].log
                      \o (IF ab[2].res.ok THEN << >>
                          ELSE << Entry("remove_dir_all", << >>, << >>, "ok", 0) >>),
                    ab[2].res) :
              ab \in {a \in first : a.res.ok} \X rest}

\* The `?` operator: the first error ends the sequence, otherwise the next call runs.
AndThen(first, rest) ==
    {a \in first : ~a.res.ok}
      \cup {Outcome(ab[1].log \o ab[2].log, ab[2].res) :
              ab \in {a \in first : a.res.ok} \X rest}

\* What the operating system reports for one child process: the spawn failed,
\* the wait failed, or the process exited with a status after writing bytes to
\* its standard output; utf8 says whether the bytes are valid UTF-8 and stdout
\* is their text.
ChildProcess(end, status, utf8, stdout) ==
    [end |-> end, status |-> status, utf8 |-> utf8, stdout |-> stdout]

ChildProcesses(outputs) ==
    {ChildProcess("spawn_failed", 0, TRUE, << >>),
     ChildProcess("wait_failed", 0, TRUE, << >>)}
      \cup {ChildProcess("exited", st, u, text) :
              st \in 0 .. MaxExitStatus, u \in BOOLEAN, text \in outputs}

\* run_command, lines 19-46
RunCommandReturn(command, args, process) ==
    IF process.end # "exited" THEN Err(IoError)
    ELSE IF process.status = 0 THEN Ok(Unit)
    ELSE Err(CommandExecutionError(command, JoinWith(args, Space), process.status))

\* Mutant of RunCommandOutputReturn: the output is decoded before the exit
\* status is looked at.
RunCommandOutputReturnDecodesFirst(command, args, process) ==
    IF process.end # "exited" THEN Err(IoError)
    ELSE IF ~process.utf8 THEN Err(Utf8OutputError(command))
    ELSE IF process.status # 0
    THEN Err(CommandExecutionError(command, JoinWith(args, Space), process.status))
    ELSE Ok(process.stdout)

\* run_command_output, lines 58-82
RunCommandOutputReturn(command, args, process) ==
    IF process.end # "exited" THEN Err(IoError)
    ELSE IF process.status # 0
    THEN Err(CommandExecutionError(command, JoinWith(args, Space), process.status))
    ELSE IF process.utf8 THEN Ok(process.stdout)
    ELSE Err(Utf8OutputError(command))

\* The log entry of a call: how the child process ended, as the call saw it.
ChildEntry(fn, command, args, process, res) ==
    Entry(fn, command, args,
          IF ~res.ok /\ res.val.kind = "Utf8OutputError" THEN "non_utf8_output"
          ELSE process.end,
          process.status)

RunCommand(command, args) ==
    {Outcome(<< ChildEntry("run_command", command, args, process,
                           RunCommandReturn(command, args, process)) >>,
             RunCommandReturn(command, args, process)) :
       process \in ChildProcesses({<< >>})}

RunCommandOutput(command, args, outputs) ==
    {Outcome(<< ChildEntry("run_command_output", command, args, process,
                           RunCommandOutputReturn(command, args, process)) >>,
             RunCommandOutputReturn(command, args, process)) :
       process \in ChildProcesses(outputs)}

\* A filesystem call that either succeeds or fails with an I/O error.
FsCall(op, path, args) ==
    {Outcome(<< Entry(op, path, args, "ok", 0) >>, Ok(Unit)),
     Outcome(<< Entry(op, path, args, "io_error", 0) >>, Err(IoError))}

\* fs::metadata(path) matched as the stages do: Ok, NotFound -> notFound, other -> IoError.
MetadataCheck(path, notFound) ==
    {Outcome(<< Entry("metadata", path, << >>, "ok", 0) >>, Ok(Unit)),
     Outcome(<< Entry("metadata", path, << >>, "not_found", 0) >>, Err(notFound)),
     Outcome(<< Entry("metadata", path, << >>, "io_error", 0) >>, Err(IoError))}

(***************************************************************************)
(* get_cores (utils.rs)                                                    *)
(***************************************************************************)
\* usize arithmetic of a release build: a - b wraps modulo 2^64 where a debug
\* build panics.  The wrapped value 2^64 - k is written -k, and the order of
\* usize puts it above every value that has not wrapped.
UsizeSub(a, b) == a - b

UsizeGe(a, b) == IF (a < 0) = (b < 0) THEN a >= b ELSE a < 0

\* Mutant of CoresToUse: the floor at one is lost when every core is to be left free.
CoresToUseNoFloor(num_cpus, leave) ==
    IF num_cpus >= leave THEN UsizeSub(num_cpus, leave) ELSE 1

\* get_cores, lines 95-100
CoresToUse(num_cpus, leave) ==
    IF num_cpus > leave /\ UsizeGe(UsizeSub(num_cpus, leave), 1)
    THEN UsizeSub(num_cpus, leave)
    ELSE 1

\* get_cores, lines 91-103: available_parallelism() is a NonZeroUsize.
GetCores(leave) ==
    {Outcome(<< Entry("available_parallelism", << >>, << >>, "io_error", 0) >>,
             Err(IoError))}
      \cup {Outcome(<< Entry("available_parallelism", << >>, << >>, "ok", n) >>,
                    Ok(U32Display(CoresToUse(n, leave)))) : n \in 1 .. MaxCpus}

(***************************************************************************)
(* DKMS stages (dkms.rs)                                                   *)
(***************************************************************************)
\* Mutant of ParseNvidiaVersion: a driver line is taken whether or not it has a comma.
ParseNvidiaVersionAnyDriverLine(dkms_output) ==
    IF ~Contains(dkms_output, Nvidia) THEN Err(DkmsModuleNotFound)
    ELSE LET found == SelectSeq(Lines(dkms_output),
                                LAMBDA line : StartsWith(Trim(line), NvidiaSlash))
         IN  IF Len(found) = 0 THEN Err(DkmsStatusParseError(dkms_output))
             ELSE LET pieces == Split(found[1], {"/", ","})
                  IN  IF Len(pieces) < 2 THEN Err(DkmsStatusParseError(dkms_output))
                      ELSE Ok(Trim(pieces[2]))

\* The parsing part of get_nvidia_version, lines 15-39.
ParseNvidiaVersion(dkms_output) ==
    IF ~Contains(dkms_output, Nvidia) THEN Err(DkmsModuleNotFound)
    ELSE LET found == SelectSeq(Lines(dkms_output),
                                LAMBDA line : StartsWith(Trim(line), NvidiaSlash)
                                               /\ Contains(line, << "," >>))
         IN  IF Len(found) = 0 THEN Err(DkmsStatusParseError(dkms_output))
             ELSE LET pieces == Split(found[1], {"/", ","})
                  IN  IF Len(pieces) < 2 THEN Err(DkmsStatusParseError(dkms_output))
                      ELSE Ok(Trim(pieces[2]))

\* get_nvidia_version, line 13 and on: the `?` on the command, then the parsing.
GetNvidiaVersionReturn(o) ==
    IF o.res.ok THEN Outcome(o.log, ParseNvidiaVersion(o.res.val)) ELSE o

GetNvidiaVersion ==
    {GetNvidiaVersionReturn(o) :
       o \in RunCommandOutput(ProgDkms, << ArgStatus >>, StatusOutputs)}

\* dkms_install, lines 56-64: the kernel name and the arguments of the command.
DkmsInstallKernelName(config) ==
    VersionDisplay(config.version_new) \o Dash \o config.custom_kernel_suffix

DkmsInstallArgs(config, dkms_module_version) ==
    << ArgInstall, ArgForce, NvidiaSlash \o dkms_module_version, ArgK,
       DkmsInstallKernelName(config) >>

DkmsInstallRuns(config) ==
    {g \in GetNvidiaVersion : ~g.res.ok}
      \cup UNION {{Outcome(g.log \o r.log, r.res) :
                     r \in RunCommand(ProgDkms, DkmsInstallArgs(config, g.res.val))} :
                  g \in {x \in GetNvidiaVersion : x.res.ok}}

\* dkms_remove, line 105
DkmsRemoveArgs(config, dkms_module_version) ==
    << ArgRemove, NvidiaSlash \o dkms_module_version, ArgK,
       Unwrap(config.kernel_ident_name_old) >>

\* Mutant of DkmsRemoveResult: only a non-zero exit is downgraded to a warning.
DkmsRemoveResultFatalIo(remove_result) ==
    IF remove_result.ok THEN Ok(Unit)
    ELSE IF remove_result.val.kind = "CommandExecutionError" THEN Ok(Unit)
    ELSE remove_result

\* dkms_remove, lines 116-157: what the stage returns for a result of the removal command.
DkmsRemoveResult(remove_result) ==
    IF remove_result.ok THEN Ok(Unit)
    ELSE IF remove_result.val.kind = "CommandExecutionError" THEN Ok(Unit)
    ELSE Ok(Unit)

\* Mutant of DkmsRemoveRuns: a failed driver-version lookup is downgraded too.
DkmsRemoveRunsLookupDowngraded(config) ==
    {Outcome(g.log, Ok(Unit)) : g \in {x \in GetNvidiaVersion : ~x.res.ok}}
      \cup UNION {{Outcome(g.log \o r.log, DkmsRemoveResult(r.res)) :
                     r \in RunCommandOutput(ProgDkms,
                                            DkmsRemoveArgs(config, g.res.val),
                                            RemoveOutputs)} :
                  g \in {x \in GetNvidiaVersion : x.res.ok}}

\* dkms_remove, lines 100-157, once both expect() calls have passed.
DkmsRemoveRuns(config) ==
    {g \in GetNvidiaVersion : ~g.res.ok}
      \cup UNION {{Outcome(g.log \o r.log, DkmsRemoveResult(r.res)) :
                     r \in RunCommandOutput(ProgDkms,
                                            DkmsRemoveArgs(config, g.res.val),
                                            RemoveOutputs)} :
                  g \in {x \in GetNvidiaVersion : x.res.ok}}

(***************************************************************************)
(* Kernel stages (kernel.rs) and update_grub (utils.rs)                    *)
(***************************************************************************)
\* kernel_compile, lines 42-48
DownloadRuns(config) ==
    IF config.downloader = "Curl"
    THEN RunCommand(ProgCurl,
                    << ArgFL, config.download_link, ArgO, config.tarball_name >>)
    ELSE RunCommand(ProgWget, << config.download_link >>)

\* kernel_compile, lines 113-122
BuildRuns ==
    {c \in GetCores(1) : ~c.res.ok}
      \cup UNION {{Outcome(c.log \o r.log, r.res) :
                     r \in RunCommand(ProgMake, << ArgJ, c.res.val >>)} :
                  c \in {x \in GetCores(1) : x.res.ok}}

\* Mutant of KernelCompileRuns: the build runs before the configuration is regenerated.
KernelCompileRunsBuildBeforeRegeneration(config) ==
    AndThen(FsCall("create_dir_all", config.kernel_src_base, << >>),
    AndThen(FsCall("set_current_dir", config.kernel_src_base, << >>),
    AndThen(DownloadRuns(config),
    AndThen(RunCommand(ProgTar, << ArgJxvf, config.tarball_name >>),
    AndThen(FsCall("set_current_dir", config.kernel_src_dir_path, << >>),
    AndThen(MetadataCheck(config.config_file_path,
                          KernelConfigNotFound(config.config_file_path)),
    AndThen(RunCommand(ProgCp, << config.config_file_path, DotConfig >>),
    AndThen(BuildRuns,
    AndThen(RunCommand(ProgMake, << ArgOlddefconfig >>),
            MetadataCheck(DotConfig,
                          KernelNotConfigured(config.kernel_src_dir_path,
                                              config.version_new)))))))))))

KernelCompileRuns(config) ==
    AndThen(FsCall("create_dir_all", config.kernel_src_base, << >>),
    AndThen(FsCall("set_current_dir", config.kernel_src_base, << >>),
    AndThen(DownloadRuns(config),
    AndThen(RunCommand(ProgTar, << ArgJxvf, config.tarball_name >>),
    AndThen(FsCall("set_current_dir", config.kernel_src_dir_path, << >>),
    AndThen(MetadataCheck(config.config_file_path,
                          KernelConfigNotFound(config.config_file_path)),
    AndThen(RunCommand(ProgCp, << config.config_file_path, DotConfig >>),
    AndThen(RunCommand(ProgMake, << ArgOlddefconfig >>),
    AndThen(MetadataCheck(DotConfig,
                          KernelNotConfigured(config.kernel_src_dir_path,
                                              config.version_new)),
            BuildRuns)))))))))

\* kernel_install, lines 144-147
InstallKernelIdentName(config) ==
    VersionDisplay(config.version_new) \o Dash \o config.custom_kernel_suffix

ModulesInstallPath(config) ==
    PathJoin(config.kernel_module_base, InstallKernelIdentName(config))

\* ensure_symlink
EnsureSymlink(link_path, link_target) ==
    AndThen(
        {Outcome(<< Entry("symlink_metadata", link_path, << >>, "io_error", 0) >>,
                 Err(IoError)),
         Outcome(<< Entry("symlink_metadata", link_path, << >>, "not_found", 0) >>,
                 Ok(Unit))}
          \cup {Outcome(<< Entry("symlink_metadata", link_path, << >>, "is_dir", 0) >>
                          \o r.log, r.res) :
                  r \in FsCall("remove_dir", link_path, << >>)}
          \cup {Outcome(<< Entry("symlink_metadata", link_path, << >>, "not_dir", 0) >>
                          \o r.log, r.res) :
                  r \in FsCall("remove_file", link_path, << >>)},
        FsCall("symlink", link_path, << link_target >>))

\* Mutant of KernelInstallRuns: the image is looked for after the modules are installed.
KernelInstallRunsImageCheckedLate(config) ==
    AndThen(FsCall("set_current_dir", config.kernel_src_dir_path, << >>),
    AndThen(RunCommand(ProgMake, << ArgModulesInstall >>),
    AndThen(MetadataCheck(BzImagePath,
                          KernelBinaryNotFound(BzImagePath, config.kernel_src_dir_path,
                                               config.version_new)),
    AndThen(RunCommand(ProgCp, << BzImagePath, config.vmlinuz_install_path >>),
    AndThen(EnsureSymlink(PathJoin(ModulesInstallPath(config), BuildName),
                          config.kernel_src_dir_path),
            EnsureSymlink(PathJoin(ModulesInstallPath(config), SourceName),
                          config.kernel_src_dir_path))))))

KernelInstallRuns(config) ==
    AndThen(FsCall("set_current_dir", config.kernel_src_dir_path, << >>),
    AndThen(MetadataCheck(BzImagePath,
                          KernelBinaryNotFound(BzImagePath, config.kernel_src_dir_path,
                                               config.version_new)),
    AndThen(RunCommand(ProgMake, << ArgModulesInstall >>),
    AndThen(RunCommand(ProgCp, << BzImagePath, config.vmlinuz_install_path >>),
    AndThen(EnsureSymlink(PathJoin(ModulesInstallPath(config), BuildName),
                          config.kernel_src_dir_path),
            EnsureSymlink(PathJoin(ModulesInstallPath(config), SourceName),
                          config.kernel_src_dir_path))))))

\* Mutant of MkinitcpioProfileName: the patch number is written after the minor.
MkinitcpioProfileNameWithPatch(config) ==
    Linux \o U32Display(config.version_new.major)
          \o U32Display(config.version_new.minor)
          \o U32Display(config.version_new.patch)
          \o Underscore \o config.custom_kernel_suffix

\* mkinitcpio: "linux{major}{minor}_{suffix}"
MkinitcpioProfileName(config) ==
    Linux \o U32Display(config.version_new.major)
          \o U32Display(config.version_new.minor)
          \o Underscore \o config.custom_kernel_suffix

MkinitcpioRuns(config) ==
    RunCommand(ProgMkinitcpio, << ArgP, MkinitcpioProfileName(config) >>)

UpdateGrubRuns == RunCommand(ProgUpdateGrub, << >>)

(***************************************************************************)
(* What the filesystem holds at a link path, and what the calls of         *)
(* ensure_symlink do to it (std::fs over POSIX).                           *)
(***************************************************************************)
Absent == [kind |-> "absent", target |-> << >>, empty |-> TRUE]
RegularFile == [kind |-> "file", target |-> << >>, empty |-> TRUE]
SymlinkTo(target) == [kind |-> "symlink", target |-> target, empty |-> TRUE]
Directory(empty) == [kind |-> "dir", target |-> << >>, empty |-> empty]

\* kernel_install, lines 206-207
ModulesLinkPath(config, name) ==
    PathJoin(ModulesInstallPath(config),
             IF name = "build" THEN BuildName ELSE SourceName)

\* The entries a link path may hold before an installation.
LinkEntries(config) ==
    {Absent, RegularFile, Directory(TRUE), Directory(FALSE),
     SymlinkTo(config.kernel_src_dir_path), SymlinkTo(config.kernel_src_base)}

\* The outcome of one call that the entry allows without a fault of the
\* environment: symlink_metadata does not follow a link, rmdir needs an empty
\* directory, unlink needs a non-directory, symlink needs a free path.
FsOutcome(entry, call) ==
    CASE call.op = "symlink_metadata" ->
             IF entry.kind = "absent" THEN "not_found"
             ELSE IF entry.kind = "dir" THEN "is_dir" ELSE "not_dir"
      [] call.op = "remove_dir" ->
             IF entry.kind = "dir" /\ entry.empty THEN "ok" ELSE "io_error"
      [] call.op = "remove_file" ->
             IF entry.kind \in {"file", "symlink"} THEN "ok" ELSE "io_error"
      [] call.op = "symlink" ->
             IF entry.kind = "absent" THEN "ok" ELSE "io_error"

\* A call ends as the entry allows, or with an I/O error (permissions, a
\* read-only filesystem).
FsAllows(entry, call) == call.outcome \in {FsOutcome(entry, call), "io_error"}

\* Only a call that succeeded changes the entry.
FsAfter(entry, call) ==
    IF call.outcome # "ok" THEN entry
    ELSE IF call.op = "symlink" THEN SymlinkTo(call.args[1])
    ELSE Absent

\* The calls of a log can happen in this order from the entry / the entry after them.
RECURSIVE FsAllowsAll(_, _)
FsAllowsAll(entry, calls) ==
    IF Len(calls) = 0 THEN TRUE
    ELSE /\ FsAllows(entry, calls[1])
         /\ FsAllowsAll(FsAfter(entry, calls[1]), Tail(calls))

RECURSIVE FsAfterAll(_, _)
FsAfterAll(entry, calls) ==
    IF Len(calls) = 0 THEN entry
    ELSE FsAfterAll(FsAfter(entry, calls[1]), Tail(calls))

(***************************************************************************)
(* The strings Version::from_str is called with: up to MaxParts components *)
(* joined by dots.  A component is empty, canonical, has a leading zero,   *)
(* is followed by a space, is no number, has a sign, or is u32::MAX + 1.   *)
(***************************************************************************)
MaxParts == 4

VersionComponents ==
    {<< >>, << "0" >>, << "1", "5" >>, << "0", "7" >>, << "7", " " >>, << "x" >>,
     << "+", "7" >>, << "4", "2", "9", "4", "9", "6", "7", "2", "9", "6" >>}

VersionTexts ==
    UNION {{JoinWith(parts, Dot) : parts \in [1 .. k -> VersionComponents]} :
             k \in 1 .. MaxParts}

(***************************************************************************)
(* The runner (main.rs)                                                    *)
(***************************************************************************)
VARIABLES
    args,        \* the parsed command line (Arguments)
    config,      \* Option<Config>: the Config of this run, once constructed
    pc,          \* "config_new", "stages", "returned", "exited", "panicked"
    ip,          \* index of the next call in the selected arm of run()
    executed,    \* the stage functions called so far, in call order
    log,         \* the operations attempted by the stage called last, in order
    stage_result,\* Option<Result>: what the stage called last returned
    run_result,  \* Option<Result>: what run() returned
    exit_code,   \* Option<int>: the process exit code
    version_text,\* the string handed to Version::from_str
    parsed,      \* Option<Result>: what Version::from_str(version_text) returned
    displayed,   \* Option<text>: the Display of the parsed Version
    reparsed,    \* Option<Result>: what Version::from_str(displayed) returned
    dkms_output, \* Option<text>: the standard output `dkms status` produced
    link_name,   \* "build" or "source": the link ensure_symlink is called for
    link_entry,  \* what the filesystem holds at the path of that link
    child,       \* Option: what the operating system reported for the child process
    free         \* the number of cores get_cores is asked to leave free

\* The state of the calls that are made outside a run of the pipeline.
unit_vars ==
    << version_text, parsed, displayed, reparsed, dkms_output, link_name, link_entry,
       child, free >>

vars ==
    << args, config, pc, ip, executed, log, stage_result, run_result, exit_code,
       unit_vars >>

\* No such call is in progress.
UnitsIdle ==
    /\ version_text = << >>
    /\ parsed = None
    /\ displayed = None
    /\ reparsed = None
    /\ dkms_output = None
    /\ link_name = "none"
    /\ link_entry = Absent
    /\ child = None
    /\ free = 0

\* Mutant of RunArm: the default arm builds the driver before removing the old one.
RunArmBuildBeforeRemove(command) ==
    IF command = Some("KernelCompile") THEN << "kernel_compile" >>
    ELSE IF command = Some("KernelInstall")
    THEN << "kernel_install", "mkinitcpio", "update_grub" >>
    ELSE IF command = Some("DkmsInstall")
    THEN << "dkms_remove", "dkms_install", "mkinitcpio", "update_grub" >>
    ELSE << "kernel_compile", "kernel_install", "dkms_install", "dkms_remove",
            "mkinitcpio", "update_grub" >>

\* run(), lines 32-95: the calls of each arm of the match on config.command.
RunArm(command) ==
    IF command = Some("KernelCompile") THEN << "kernel_compile" >>
    ELSE IF command = Some("KernelInstall")
    THEN << "kernel_install", "mkinitcpio", "update_grub" >>
    ELSE IF command = Some("DkmsInstall")
    THEN << "dkms_remove", "dkms_install", "mkinitcpio", "update_grub" >>
    ELSE << "kernel_compile", "kernel_install", "dkms_remove", "dkms_install",
            "mkinitcpio", "update_grub" >>

Init ==
    /\ args \in Arguments
    /\ config = None
    /\ pc = "config_new"
    /\ ip = 1
    /\ executed = << >>
    /\ log = << >>
    /\ stage_result = None
    /\ run_result = None
    /\ exit_code = None
    /\ UnitsIdle

\* run(), lines 27-30
RunConfigNew ==
    /\ pc = "config_new"
    /\ LET r == ConfigNew(args)
       IN  IF r.ok
           THEN /\ config' = Some(r.val)
                /\ pc' = "stages"
                /\ run_result' = run_result
           ELSE /\ config' = config
                /\ pc' = "returned"
                /\ run_result' = Some(r)
    /\ UNCHANGED << args, ip, executed, log, stage_result, exit_code, unit_vars >>

AtCall(name) ==
    /\ pc = "stages"
    /\ RunArm(Unwrap(config).command)[ip] = name

\* Mutant of StageReturns: the `?` is missing, a stage's error is dropped.
StageReturnsDroppingError(name, o) ==
    /\ executed' = Append(executed, name)
    /\ log' = o.log
    /\ stage_result' = Some(o.res)
    /\ IF ip < Len(RunArm(Unwrap(config).command))
       THEN pc' = pc /\ run_result' = run_result /\ ip' = ip + 1
       ELSE pc' = "returned" /\ run_result' = Some(Ok(Unit)) /\ ip' = ip
    /\ UNCHANGED << args, config, exit_code, unit_vars >>

\* Mutant of StageReturns: a stage that fails is called once more before its
\* error is returned.
StageReturnsRetryingOnce(name, o) ==
    /\ executed' = Append(executed, name)
    /\ log' = o.log
    /\ stage_result' = Some(o.res)
    /\ IF ~o.res.ok /\ (\A i \in 1 .. Len(executed) : executed[i] # name)
       THEN pc' = pc /\ run_result' = run_result /\ ip' = ip
       ELSE IF ~o.res.ok
       THEN pc' = "returned" /\ run_result' = Some(Err(o.res.val)) /\ ip' = ip
       ELSE IF ip < Len(RunArm(Unwrap(config).command))
       THEN pc' = pc /\ run_result' = run_result /\ ip' = ip + 1
       ELSE pc' = "returned" /\ run_result' = Some(Ok(Unit)) /\ ip' = ip
    /\ UNCHANGED << args, config, exit_code, unit_vars >>

\* `stage(&config)?` inside run(): an error returns it, success goes on to the
\* next call of the arm, and the arm ends with Ok(()).
StageReturns(name, o) ==
    /\ executed' = Append(executed, name)
    /\ log' = o.log
    /\ stage_result' = Some(o.res)
    /\ IF ~o.res.ok
       THEN pc' = "returned" /\ run_result' = Some(Err(o.res.val)) /\ ip' = ip
       ELSE IF ip < Len(RunArm(Unwrap(config).command))
       THEN pc' = pc /\ run_result' = run_result /\ ip' = ip + 1
       ELSE pc' = "returned" /\ run_result' = Some(Ok(Unit)) /\ ip' = ip
    /\ UNCHANGED << args, config, exit_code, unit_vars >>

KernelCompile ==
    /\ AtCall("kernel_compile")
    /\ \E o \in KernelCompileRuns(Unwrap(config)) : StageReturns("kernel_compile", o)

KernelInstall ==
    /\ AtCall("kernel_install")
    /\ \E o \in KernelInstallRuns(Unwrap(config)) : StageReturns("kernel_install", o)

\* dkms_remove: the two expect() calls panic when the old version is missing.
DkmsRemove ==
    /\ AtCall("dkms_remove")
    /\ IF IsNone(Unwrap(config).version_old)
          \/ IsNone(Unwrap(config).kernel_ident_name_old)
       THEN /\ pc' = "panicked"
            /\ executed' = Append(executed, "dkms_remove")
            /\ log' = << >>
            /\ stage_result' = None
            /\ exit_code' = Some(101)
            /\ UNCHANGED << args, config, ip, run_result, unit_vars >>
       ELSE \E o \in DkmsRemoveRuns(Unwrap(config)) : StageReturns("dkms_remove", o)

DkmsInstall ==
    /\ AtCall("dkms_install")
    /\ \E o \in DkmsInstallRuns(Unwrap(config)) : StageReturns("dkms_install", o)

Mkinitcpio ==
    /\ AtCall("mkinitcpio")
    /\ \E o \in MkinitcpioRuns(Unwrap(config)) : StageReturns("mkinitcpio", o)

UpdateGrub ==
    /\ AtCall("update_grub")
    /\ \E o \in UpdateGrubRuns : StageReturns("update_grub", o)

\* Mutant of MainExit: the process exits with 0 whatever run() returned.
MainExitAlwaysZero ==
    /\ pc = "returned"
    /\ pc' = "exited"
    /\ exit_code' = Some(0)
    /\ UNCHANGED << args, config, ip, executed, log, stage_result, run_result, unit_vars >>

\* main(), lines 13-23
MainExit ==
    /\ pc = "returned"
    /\ pc' = "exited"
    /\ exit_code' = Some(IF Unwrap(run_result).ok THEN 0 ELSE 1)
    /\ UNCHANGED << args, config, ip, executed, log, stage_result, run_result, unit_vars >>

Next ==
    \/ RunConfigNew
    \/ KernelCompile
    \/ KernelInstall
    \/ DkmsRemove
    \/ DkmsInstall
    \/ Mkinitcpio
    \/ UpdateGrub
    \/ MainExit

Spec == Init /\ [][Next]_vars

\* Runs of the newest version of the model with the old version absent, equal
\* or lower: one run for each way Config::new can end, in every mode.
InitFair ==
    /\ Init
    /\ args.suffix = << "X" >>
    /\ args.new = [major |-> MaxMajor, minor |-> MaxMinor, patch |-> MaxPatch]
    /\ args.old \in {None, Some(args.new),
                      Some([major |-> MaxMajor, minor |-> MaxMinor - 1, patch |-> 0])}

\* Every external program a stage starts exits, so no call of a stage lasts
\* forever: a run is not in its stages from some point on without taking a
\* step.  (A stage can be called exactly when pc = "stages".)
StagesEnd == []<>(pc # "stages") \/ []<><< Next >>_vars

\* The program is one thread that runs to its exit: Config::new returns, each
\* stage called returns, and main() exits once run() has returned.
SpecFair ==
    InitFair /\ [][Next]_vars /\ WF_vars(RunConfigNew) /\ WF_vars(MainExit) /\ StagesEnd

(***************************************************************************)
(* Version::from_str and Display called on their own (version.rs)          *)
(***************************************************************************)
\* No pipeline is running.
RunnerIdle ==
    /\ args = None
    /\ config = None
    /\ pc = "unit"
    /\ ip = 1
    /\ executed = << >>
    /\ log = << >>
    /\ stage_result = None
    /\ run_result = None
    /\ exit_code = None

InitVersion ==
    /\ RunnerIdle
    /\ version_text \in VersionTexts
    /\ parsed = None
    /\ displayed = None
    /\ reparsed = None
    /\ dkms_output = None
    /\ link_name = "none"
    /\ link_entry = Absent
    /\ child = None
    /\ free = 0

runner_vars ==
    << args, config, pc, ip, executed, log, stage_result, run_result, exit_code >>

\* version_text.parse::<Version>()
VersionParse ==
    /\ parsed = None
    /\ parsed' = Some(VersionFromStr(version_text))
    /\ UNCHANGED << runner_vars, version_text, displayed, reparsed, dkms_output,
                    link_name, link_entry, child, free >>

\* version.to_string() of a parsed version
VersionToString ==
    /\ IsSome(parsed)
    /\ Unwrap(parsed).ok
    /\ displayed = None
    /\ displayed' = Some(VersionDisplay(Unwrap(parsed).val))
    /\ UNCHANGED << runner_vars, version_text, parsed, reparsed, dkms_output,
                    link_name, link_entry, child, free >>

\* version.to_string().parse::<Version>()
VersionParseDisplayed ==
    /\ IsSome(displayed)
    /\ reparsed = None
    /\ reparsed' = Some(VersionFromStr(Unwrap(displayed)))
    /\ UNCHANGED << runner_vars, version_text, parsed, displayed, dkms_output,
                    link_name, link_entry, child, free >>

NextVersion ==
    \/ VersionParse
    \/ VersionToString
    \/ VersionParseDisplayed

SpecVersion == InitVersion /\ [][NextVersion]_vars

(***************************************************************************)
(* get_nvidia_version called on its own (dkms.rs)                          *)
(***************************************************************************)
InitStatus ==
    /\ RunnerIdle
    /\ UnitsIdle

\* get_nvidia_version(): the environment chooses how `dkms status` ends and
\* what it prints.
GetNvidiaVersionCall ==
    /\ pc = "unit"
    /\ stage_result = None
    /\ \E o \in RunCommandOutput(ProgDkms, << ArgStatus >>, StatusTexts) :
          /\ dkms_output' = IF o.res.ok THEN Some(o.res.val) ELSE None
          /\ log' = o.log
          /\ stage_result' = Some(GetNvidiaVersionReturn(o).res)
    /\ executed' = Append(executed, "get_nvidia_version")
    /\ UNCHANGED << args, config, pc, ip, run_result, exit_code, version_text,
                    parsed, displayed, reparsed, link_name, link_entry, child, free >>

NextStatus == GetNvidiaVersionCall

SpecStatus == InitStatus /\ [][NextStatus]_vars

(***************************************************************************)
(* ensure_symlink called on a link path that holds some entry (kernel.rs)  *)
(***************************************************************************)
MaxEnsureCalls == 2

InitSymlink ==
    /\ args \in {a \in Arguments : a.command = Some("KernelInstall") /\ IsNone(a.old)
                                      /\ a.downloader = "Curl"}
    /\ config = Some(ConfigNew(args).val)
    /\ pc = "unit"
    /\ ip = 1
    /\ executed = << >>
    /\ log = << >>
    /\ stage_result = None
    /\ run_result = None
    /\ exit_code = None
    /\ version_text = << >>
    /\ parsed = None
    /\ displayed = None
    /\ reparsed = None
    /\ dkms_output = None
    /\ link_name \in {"build", "source"}
    /\ link_entry \in LinkEntries(Unwrap(config))
    /\ child = None
    /\ free = 0

\* ensure_symlink(&link_path, kernel_src_dir_path), as kernel_install calls it:
\* the calls it makes end as the entry at the link path allows.
EnsureSymlinkCall ==
    /\ pc = "unit"
    /\ Len(executed) < MaxEnsureCalls
    /\ \E o \in EnsureSymlink(ModulesLinkPath(Unwrap(config), link_name),
                               Unwrap(config).kernel_src_dir_path) :
          /\ FsAllowsAll(link_entry, o.log)
          /\ link_entry' = FsAfterAll(link_entry, o.log)
          /\ log' = o.log
          /\ stage_result' = Some(o.res)
    /\ executed' = Append(executed, "ensure_symlink")
    /\ UNCHANGED << args, config, pc, ip, run_result, exit_code, version_text,
                    parsed, displayed, reparsed, dkms_output, link_name, child, free >>

NextSymlink == EnsureSymlinkCall

SpecSymlink == InitSymlink /\ [][NextSymlink]_vars

(***************************************************************************)
(* run_command, run_command_output and get_cores called on their own       *)
(* (utils.rs), and the build step of kernel_compile that calls get_cores    *)
(***************************************************************************)
MaxFree == 3

\* Programs and arguments the stages run.
UtilsCommands ==
    {[command |-> ProgUpdateGrub, args |-> << >>],
     [command |-> ProgDkms, args |-> << ArgStatus >>],
     [command |-> ProgMake, args |-> << ArgJ, << "1" >> >>]}

\* Texts a child process writes to its standard output.
UtilsOutputs == {<< >>, RemoveOutput, StatusInstalled}

InitUtils ==
    /\ RunnerIdle
    /\ version_text = << >>
    /\ parsed = None
    /\ displayed = None
    /\ reparsed = None
    /\ dkms_output = None
    /\ link_name = "none"
    /\ link_entry = Absent
    /\ child = None
    /\ free \in 0 .. MaxFree

\* What a call leaves: the function called, the operations it attempted and
\* the Result it returned.
UtilsReturns(fn, o) ==
    /\ executed' = Append(executed, fn)
    /\ log' = o.log
    /\ stage_result' = Some(o.res)
    /\ UNCHANGED << args, config, pc, ip, run_result, exit_code, version_text,
                    parsed, displayed, reparsed, dkms_output, link_name, link_entry,
                    free >>

\* run_command(command, args): the environment chooses how the child ends.
RunCommandCall ==
    /\ pc = "unit"
    /\ stage_result = None
    /\ \E c \in UtilsCommands, process \in ChildProcesses({<< >>}) :
          LET res == RunCommandReturn(c.command, c.args, process)
          IN  /\ child' = Some(process)
              /\ UtilsReturns("run_command",
                     Outcome(<< ChildEntry("run_command", c.command, c.args,
                                           process, res) >>, res))

\* run_command_output(command, args)
RunCommandOutputCall ==
    /\ pc = "unit"
    /\ stage_result = None
    /\ \E c \in UtilsCommands, process \in ChildProcesses(UtilsOutputs) :
          LET res == RunCommandOutputReturn(c.command, c.args, process)
          IN  /\ child' = Some(process)
              /\ UtilsReturns("run_command_output",
                     Outcome(<< ChildEntry("run_command_output", c.command, c.args,
                                           process, res) >>, res))

\* get_cores(free)
GetCoresCall ==
    /\ pc = "unit"
    /\ stage_result = None
    /\ child' = child
    /\ \E o \in GetCores(free) : UtilsReturns("get_cores", o)

\* kernel_compile, lines 113-122: get_cores(1) and the build it sizes.
KernelCompileBuild ==
    /\ pc = "unit"
    /\ stage_result = None
    /\ child' = child
    /\ \E o \in BuildRuns : UtilsReturns("kernel_compile", o)

NextUtils ==
    \/ RunCommandCall
    \/ RunCommandOutputCall
    \/ GetCoresCall
    \/ KernelCompileBuild

SpecUtils == InitUtils /\ [][NextUtils]_vars

(***************************************************************************)
(* mkinitcpio called on its own for versions of one- and two-digit majors  *)
(* and minors (kernel.rs)                                                  *)
(***************************************************************************)
ProfileMajors == {1, 6, 11}
ProfileMinors == {5, 15}
ProfileVersions == [major : ProfileMajors, minor : ProfileMinors, patch : Patches]

InitProfile ==
    /\ args \in [command : {Some("KernelInstall")}, downloader : {"Curl"},
                  suffix : Suffixes, new : ProfileVersions, old : {None}]
    /\ config = Some(ConfigNew(args).val)
    /\ pc = "unit"
    /\ ip = 1
    /\ executed = << >>
    /\ log = << >>
    /\ stage_result = None
    /\ run_result = None
    /\ exit_code = None
    /\ UnitsIdle

\* mkinitcpio(&config)
MkinitcpioCall ==
    /\ pc = "unit"
    /\ stage_result = None
    /\ child' = child
    /\ \E o \in MkinitcpioRuns(Unwrap(config)) : UtilsReturns("mkinitcpio", o)

NextProfile == MkinitcpioCall

SpecProfile == InitProfile /\ [][NextProfile]_vars

(***************************************************************************)
(* Properties                                                              *)
(***************************************************************************)
Last(s) == s[Len(s)]
IsPrefix(p, s) == Len(p) <= Len(s) /\ SubSeq(s, 1, Len(p)) = p
RunSucceeded == IsSome(run_result) /\ Unwrap(run_result).ok
StageFailed == IsSome(stage_result) /\ ~Unwrap(stage_result).ok
Finished == pc \in {"returned", "exited"}

\* The stage sequence of each operation mode, as stage functions:
\* Compile = kernel_compile, Install = kernel_install, DkmsRemove = dkms_remove,
\* DkmsBuild = dkms_install, Initramfs = mkinitcpio, BootloaderUpdate = update_grub.
ModeStages(command) ==
    CASE command = Some("KernelCompile") -> << "kernel_compile" >>
      [] command = Some("KernelInstall") ->
             << "kernel_install", "mkinitcpio", "update_grub" >>
      [] command = Some("DkmsInstall") ->
             << "dkms_remove", "dkms_install", "mkinitcpio", "update_grub" >>
      [] command = None ->
             << "kernel_compile", "kernel_install", "dkms_remove", "dkms_install",
                "mkinitcpio", "update_grub" >>

\* C1: in every mode the stages run are the mode's listed stages in the listed
\* order: what has been executed is always a prefix of the mode's list, nothing is
\* executed without a Config, and a run in which every stage succeeded has
\* executed exactly the list.
C1_StageOrder ==
    /\ IsNone(config) => executed = << >>
    /\ IsPrefix(executed, ModeStages(args.command))
    /\ RunSucceeded => executed = ModeStages(args.command)

C1_FullRunSucceeds ==
    /\ pc = "exited"
    /\ RunSucceeded
    /\ args.command = None
    /\ Len(executed) = 6

\* C2: the first stage that returns an error aborts the run: the run has returned
\* with exactly that stage's error, and from then on no stage is called, no
\* operation is attempted and the reported outcome does not change.
C2_FirstErrorAborts ==
    /\ [](StageFailed =>
            Finished /\ run_result = Some(Err(Unwrap(stage_result).val)))
    /\ [][StageFailed =>
            executed' = executed /\ log' = log /\ run_result' = run_result]_vars

C2_InstallFailsInFullMode ==
    /\ pc = "exited"
    /\ args.command = None
    /\ executed = << "kernel_compile", "kernel_install" >>
    /\ StageFailed
    /\ run_result = stage_result

\* The state right after dkms_remove was called and returned.
AfterDkmsRemove ==
    /\ Len(executed) > 0
    /\ Last(executed) = "dkms_remove"
    /\ pc # "panicked"

\* The removal command was attempted (the lookup succeeded) and failed.
RemovalCommandFailed ==
    /\ AfterDkmsRemove
    /\ Len(log) = 2
    /\ log[2].args[1] = ArgRemove
    /\ ~(log[2].outcome = "exited" /\ log[2].code = 0)

RemoveLookupFailed == AfterDkmsRemove /\ Len(log) = 1

ConfigDone == pc # "config_new"

\* C5: whenever old is present and new <= old, in every mode, Config::new fails
\* with VersionComparisonError carrying new and old, and no Config exists.
C5_OrderViolationRejected ==
    (ConfigDone /\ IsSome(args.old) /\ VersionLe(args.new, Unwrap(args.old))) =>
        /\ run_result = Some(Err(VersionComparisonError(args.new, Unwrap(args.old))))
        /\ IsNone(config)
        /\ executed = << >>

C5_EqualVersionsRejected ==
    /\ pc = "exited"
    /\ args.old = Some(args.new)
    /\ args.command = Some("KernelInstall")
    /\ IsSome(run_result)
    /\ ~Unwrap(run_result).ok
    /\ Unwrap(run_result).val.kind = "VersionComparisonError"

\* C6: with old absent, Config::new fails with MissingRequiredArgument naming
\* "--old" and the mode when the mode is dkms-only or full, and succeeds when the
\* mode is compile-only or install-only; in these two modes a present old with
\* new > old succeeds as well.
C6_OldRequiredByMode ==
    ConfigDone =>
        /\ (IsNone(args.old) /\ args.command \in {Some("DkmsInstall"), None}) =>
               /\ run_result =
                      Some(Err(MissingRequiredArgument(OldArgName, args.command)))
               /\ IsNone(config)
        /\ (IsNone(args.old)
              /\ args.command \in {Some("KernelCompile"), Some("KernelInstall")}) =>
               IsSome(config)
        /\ (IsSome(args.old)
              /\ ~VersionLe(args.new, Unwrap(args.old))
              /\ args.command \in {Some("KernelCompile"), Some("KernelInstall")}) =>
               IsSome(config)

C6_DefaultModeMissingOld ==
    /\ pc = "exited"
    /\ IsNone(args.old)
    /\ args.command = None
    /\ IsSome(run_result)
    /\ ~Unwrap(run_result).ok
    /\ Unwrap(run_result).val.kind = "MissingRequiredArgument"

\* C7: for every accepted new version M.N.P and suffix, the source-tree name is
\* "linux-M.N.P", the tarball "linux-M.N.P.tar.xz" and the installed identifier
\* "M.N.P-suffix" when P # 0, and "linux-M.N", "linux-M.N.tar.xz", "M.N-suffix"
\* when P = 0.
C7_DerivedNames ==
    IsSome(config) =>
        LET c == Unwrap(config)
            v == args.new
            mn == U32Display(v.major) \o << "." >> \o U32Display(v.minor)
            mnp == mn \o << "." >> \o U32Display(v.patch)
            shown == IF v.patch # 0 THEN mnp ELSE mn
        IN  /\ c.kernel_src_dir_name = << "l", "i", "n", "u", "x", "-" >> \o shown
            /\ c.tarball_name =
                   << "l", "i", "n", "u", "x", "-" >> \o shown
                       \o << ".", "t", "a", "r", ".", "x", "z" >>
            /\ c.kernel_ident_name_new = shown \o << "-" >> \o args.suffix

C7_PatchZeroConfigured ==
    /\ IsSome(config)
    /\ args.new.patch = 0
    /\ args.suffix = << "X" >>
    /\ Unwrap(config).kernel_ident_name_new = MajorMinor(args.new) \o << "-", "X" >>

\* The Config of a run with the same suffix whose new version is v.
ConfigForNew(v) ==
    ConfigNew([args EXCEPT !.new = v, !.old = None,
                           !.command = Some("KernelCompile")]).val

\* C8: for the same suffix, no other new version yields the source-tree name,
\* tarball name, download URL or installed identifier of this run's Config.
C8_DerivedNamesInjective ==
    IsSome(config) =>
        \A w \in Version \ {Unwrap(config).version_new} :
            LET c == Unwrap(config)
                d == ConfigForNew(w)
            IN  /\ c.kernel_src_dir_name # d.kernel_src_dir_name
                /\ c.tarball_name # d.tarball_name
                /\ c.download_link # d.download_link
                /\ c.kernel_ident_name_new # d.kernel_ident_name_new

C8_PatchZeroBesidePatched ==
    /\ IsSome(config)
    /\ Unwrap(config).version_new.patch = 0
    /\ \E w \in Version :
           /\ w.major = Unwrap(config).version_new.major
           /\ w.minor = Unwrap(config).version_new.minor
           /\ w.patch # 0

\* C9: the installed identifier of a version is the same whether the version is
\* the new version of a run or the old version of a later run, and dkms_remove
\* of the later run passes that identifier to the removal command.
C9_IdentifierStableAcrossRoles ==
    (IsSome(config) /\ IsSome(Unwrap(config).version_old)) =>
        LET c == Unwrap(config)
            earlier == ConfigForNew(Unwrap(c.version_old))
        IN  /\ c.kernel_ident_name_old = Some(earlier.kernel_ident_name_new)
            /\ (AfterDkmsRemove /\ Len(log) = 2) =>
                   log[2].args[4] = earlier.kernel_ident_name_new

\* C10: the kernel identifier dkms_install passes to `dkms install -k`, and the
\* module directory in which kernel_install creates the build and source
\* symlinks, are the Config's kernel_ident_name_new.
C10_StagesUseConfigIdentifier ==
    (IsSome(config) /\ Len(executed) > 0) =>
        LET c == Unwrap(config)
            dir == PathJoin(c.kernel_module_base, c.kernel_ident_name_new)
        IN  /\ (Last(executed) = "dkms_install" /\ Len(log) = 2) =>
                   log[2].args[5] = c.kernel_ident_name_new
            /\ Last(executed) = "kernel_install" =>
                   \A i \in 1 .. Len(log) :
                       log[i].op = "symlink" =>
                           log[i].target \in {PathJoin(dir, BuildName),
                                              PathJoin(dir, SourceName)}

(***************************************************************************)
(* Version parsing, formatting and comparison (C11 - C14)                  *)
(***************************************************************************)
ParseCalled == IsSome(parsed)
ParseFailedWith(kind) ==
    ParseCalled /\ ~Unwrap(parsed).ok /\ Unwrap(parsed).val.kind = kind

\* The number of parts a string has between its dots.
PartCount(s) == Cardinality({i \in 1 .. Len(s) : s[i] = "."}) + 1

\* A part that, trimmed, is written as a non-negative integer: digits, with an
\* optional plus sign in front.
IsIntegerText(part) ==
    LET t == Trim(part)
        d == IF Len(t) > 0 /\ t[1] = "+" THEN Tail(t) ELSE t
    IN  Len(d) > 0 /\ \A i \in 1 .. Len(d) : IsDigit(d[i])

\* ... and whose value is at most u32::MAX.
IsU32Text(part) ==
    /\ IsIntegerText(part)
    /\ LET t == Trim(part)
       IN  ~ExceedsU32(IF t[1] = "+" THEN Tail(t) ELSE t)

PartsOf(s) == Split(s, {"."})
EveryPartIsU32(s) ==
    LET parts == PartsOf(s) IN \A i \in 1 .. Len(parts) : IsU32Text(parts[i])

\* C11 as stated: every string that does not split on "." into exactly three
\* parts fails with VersionParseFormatError, and only strings of exactly three
\* parts parse.
C11_FormatErrorWheneverNotThreeParts ==
    ParseCalled =>
        /\ PartCount(version_text) # 3 =>
               parsed = Some(Err(VersionParseFormatError(version_text)))
        /\ Unwrap(parsed).ok => PartCount(version_text) = 3

\* C11, amended: a string whose parts are all u32 integers but are not exactly
\* three fails with VersionParseFormatError carrying the string; when some part
\* is no u32 integer the failure is VersionParseIntError, whatever the number of
\* parts; and only strings of exactly three parts parse.
C11_FormatErrorWhenPartsAreIntegers ==
    ParseCalled =>
        LET integers == EveryPartIsU32(version_text)
        IN  /\ (PartCount(version_text) # 3 /\ integers) =>
                   parsed = Some(Err(VersionParseFormatError(version_text)))
            /\ (PartCount(version_text) # 3 /\ ~integers) =>
                   ParseFailedWith("VersionParseIntError")
            /\ Unwrap(parsed).ok => PartCount(version_text) = 3

\* Four integer parts were parsed and rejected for their number.
C11_FourIntegerParts ==
    /\ PartCount(version_text) = 4
    /\ EveryPartIsU32(version_text)
    /\ ParseFailedWith("VersionParseFormatError")

\* C12: whenever some dot-separated part of the string, trimmed, is not written
\* as a non-negative integer (an empty part and the empty string included),
\* parsing fails with VersionParseIntError, however many parts there are.
C12_InvalidComponentGivesIntError ==
    ParseCalled =>
        LET parts == PartsOf(version_text)
        IN  (\E i \in 1 .. Len(parts) : ~IsIntegerText(parts[i]))
                => ParseFailedWith("VersionParseIntError")

\* A string of four parts, one of them empty, was rejected with the integer error.
C12_EmptyPartAmongFour ==
    /\ PartCount(version_text) = 4
    /\ LET parts == PartsOf(version_text)
       IN  \E i \in 1 .. Len(parts) : Trim(parts[i]) = << >>
    /\ ParseFailedWith("VersionParseIntError")

\* A canonical decimal numeral: digits only, no sign, no leading zero.
IsCanonicalNumeral(d) ==
    /\ Len(d) > 0
    /\ \A i \in 1 .. Len(d) : IsDigit(d[i])
    /\ Len(d) = 1 \/ d[1] # "0"

\* Once the surrounding whitespace is trimmed, every part is a canonical numeral.
IsCanonicalText(s) ==
    LET parts == PartsOf(Trim(s))
    IN  \A i \in 1 .. Len(parts) : IsCanonicalNumeral(parts[i])

\* C13 as stated: for every string that parses, formatting the parsed version
\* gives the string without its surrounding whitespace; and parsing the
\* formatted version gives the version back.
C13_RoundTripOfEveryParsedText ==
    /\ IsSome(displayed) => Unwrap(displayed) = Trim(version_text)
    /\ IsSome(reparsed) => reparsed = parsed

\* C13, amended: for a string that parses, formatting the parsed version gives
\* the string without its surrounding whitespace exactly when every part of the
\* trimmed string is a canonical numeral; and for every version, parsing the
\* formatted version gives the version back.
C13_RoundTripOfCanonicalText ==
    /\ IsSome(displayed) =>
           (Unwrap(displayed) = Trim(version_text) <=> IsCanonicalText(version_text))
    /\ IsSome(reparsed) => reparsed = parsed

\* A canonical string followed by whitespace was parsed, formatted and parsed again.
C13_TrimmedTextRoundTrips ==
    /\ IsSome(reparsed)
    /\ Trim(version_text) # version_text
    /\ Unwrap(displayed) = Trim(version_text)
    /\ Unwrap(parsed).val.minor > 9

\* The place of a version in the lexicographic order on (major, minor, patch):
\* the three components as the digits of one number, most significant first.
OrderKey(v) == (v.major * (MaxMinor + 2) + v.minor) * (MaxPatch + 2) + v.patch

\* C14: the comparison Config::new applies to new and old is the lexicographic
\* total order: exactly one of a < b, a == b, a > b holds, a == b iff the three
\* components are equal, and a < b iff a comes first by major, then minor, then
\* patch; so new is rejected exactly when it does not come after old.
C14_LexicographicTotalOrder ==
    (ConfigDone /\ IsSome(args.old)) =>
        LET a == args.new
            b == Unwrap(args.old)
        IN  /\ VersionLt(a, b) <=> OrderKey(a) < OrderKey(b)
            /\ VersionLt(b, a) <=> OrderKey(a) > OrderKey(b)
            /\ a = b <=> (a.major = b.major /\ a.minor = b.minor /\ a.patch = b.patch)
            /\ a = b <=> OrderKey(a) = OrderKey(b)
            /\ Cardinality({r \in {"lt", "eq", "gt"} :
                              \/ r = "lt" /\ VersionLt(a, b)
                              \/ r = "eq" /\ a = b
                              \/ r = "gt" /\ VersionLt(b, a)}) = 1
            /\ VersionLe(a, b) <=> OrderKey(a) <= OrderKey(b)
            /\ IsNone(config) <=> OrderKey(a) <= OrderKey(b)

\* new has the smaller major but the larger minor and patch, and was rejected.
C14_MajorDecidesBeforeMinor ==
    /\ ConfigDone
    /\ IsSome(args.old)
    /\ args.new.major < Unwrap(args.old).major
    /\ args.new.minor > Unwrap(args.old).minor
    /\ args.new.patch > Unwrap(args.old).patch
    /\ run_result = Some(Err(VersionComparisonError(args.new, Unwrap(args.old))))

(***************************************************************************)
(* The driver-version lookup (C15, C16)                                    *)
(***************************************************************************)
\* The status query produced text, which the lookup then went through.
StatusRead == IsSome(dkms_output)

\* The lines of the status text that, leading whitespace aside, begin with "nvidia/".
DriverLines(output) ==
    SelectSeq(Lines(output), LAMBDA line : StartsWith(TrimStart(line), NvidiaSlash))

HasComma(line) == \E i \in 1 .. Len(line) : line[i] = ","

\* What follows "nvidia/" on a driver line, up to the first character of stops.
TokenUpTo(line, stops) ==
    LET rest == SubSeq(TrimStart(line), Len(NvidiaSlash) + 1, Len(TrimStart(line)))
        ends == {i \in 1 .. Len(rest) : rest[i] \in stops}
    IN  IF ends = {} THEN rest
        ELSE SubSeq(rest, 1, (CHOOSE i \in ends : \A j \in ends : i <= j) - 1)

\* C15 as stated: a status text with no line beginning with "nvidia/" makes the
\* lookup fail with DkmsModuleNotFound, also when the text mentions "nvidia"
\* elsewhere.
C15_NoDriverLineIsModuleNotFound ==
    (StatusRead /\ Len(DriverLines(Unwrap(dkms_output))) = 0) =>
        stage_result = Some(Err(DkmsModuleNotFound))

\* The first driver line that has a comma.
FirstDriverLineWithComma(output) ==
    SelectSeq(DriverLines(output), HasComma)[1]

DriverLineWithCommaExists(output) ==
    Len(SelectSeq(DriverLines(output), HasComma)) > 0

\* C16 as stated: when some line begins with "nvidia/" and has a comma, the
\* version is exactly the text between "nvidia/" and the next comma on the first
\* such line; when the lines beginning with "nvidia/" have no comma, the lookup
\* fails with DkmsStatusParseError carrying the status output.
C16_VersionIsTextUpToComma ==
    StatusRead =>
        LET status == Unwrap(dkms_output)
        IN  /\ DriverLineWithCommaExists(status) =>
                   stage_result =
                       Some(Ok(TokenUpTo(FirstDriverLineWithComma(status), {","})))
            /\ (Len(DriverLines(status)) > 0 /\ ~DriverLineWithCommaExists(status)) =>
                   stage_result = Some(Err(DkmsStatusParseError(status)))

\* C16, amended: the version is the text between "nvidia/" and the next comma
\* or slash, without surrounding whitespace, on the first line that begins with
\* "nvidia/" (leading whitespace aside) and has a comma; when there are such
\* lines but none has a comma, the lookup fails with DkmsStatusParseError
\* carrying the status output.
C16_VersionIsTrimmedTextUpToCommaOrSlash ==
    StatusRead =>
        LET status == Unwrap(dkms_output)
        IN  /\ DriverLineWithCommaExists(status) =>
                   stage_result =
                       Some(Ok(Trim(TokenUpTo(FirstDriverLineWithComma(status),
                                              {",", "/"}))))
            /\ (Len(DriverLines(status)) > 0 /\ ~DriverLineWithCommaExists(status)) =>
                   stage_result = Some(Err(DkmsStatusParseError(status)))

\* An entry without a comma comes before two entries of different versions, and
\* the version of the first of these two was returned.
C16_FirstOfTwoVersionsAfterAddedEntry ==
    /\ StatusRead
    /\ Lines(Unwrap(dkms_output)) = << LineAdded, LineInstalledNewer, LineInstalled >>
    /\ stage_result = Some(Ok(<< "5", "6", "0", ".", "3", "5" >>))

(***************************************************************************)
(* The exit code (C17)                                                     *)
(***************************************************************************)
\* C17: the exit code is 0 exactly when Config::new and every stage of the
\* mode's sequence succeeded, 1 exactly when a validation error or a stage
\* error was propagated, and the runner produces no other exit code.
C17_ExitCodeReportsResult ==
    /\ exit_code \in {None, Some(0), Some(1)}
    /\ pc = "exited" => IsSome(exit_code)
    /\ exit_code = Some(0) <=>
           /\ pc = "exited"
           /\ IsSome(config)
           /\ executed = ModeStages(args.command)
           /\ ~StageFailed
    /\ exit_code = Some(1) <=>
           /\ pc = "exited"
           /\ \/ IsNone(config) /\ executed = << >> /\ ~Unwrap(run_result).ok
              \/ IsSome(config) /\ StageFailed
                   /\ run_result = Some(Err(Unwrap(stage_result).val))

\* The process exited with 1 after a stage that was not the first one failed.
C17_ExitOneAfterLaterStageFailed ==
    /\ pc = "exited"
    /\ exit_code = Some(1)
    /\ Len(executed) > 1
    /\ StageFailed

(***************************************************************************)
(* The kernel stages (C18 - C20)                                           *)
(***************************************************************************)
\* The stage called last, whose operations are in log.
AfterStage(name) == Len(executed) > 0 /\ Last(executed) = name

\* The positions of log where a command was run with these first arguments.
CommandRuns(command, firstArgs) ==
    {i \in 1 .. Len(log) :
        /\ log[i].op = "run_command"
        /\ log[i].target = command
        /\ IsPrefix(firstArgs, log[i].args)}

\* The positions of log where the file at path was looked for and not found.
NotFoundAt(path) ==
    {i \in 1 .. Len(log) :
        log[i].op = "metadata" /\ log[i].target = path /\ log[i].outcome = "not_found"}

\* C18: whenever the compiled image is absent, kernel_install fails with
\* KernelBinaryNotFound (path, source tree, version) and has had no effect: no
\* modules installed, no image copied, no link looked at, removed or created.
\* It fails so only then.
C18_ImageAbsentStopsInstall ==
    AfterStage("kernel_install") =>
        LET c == Unwrap(config)
            notFound == Some(Err(KernelBinaryNotFound(BzImagePath, c.kernel_src_dir_path,
                                                      c.version_new)))
        IN  /\ NotFoundAt(BzImagePath) # {} =>
                   /\ stage_result = notFound
                   /\ \A i \in 1 .. Len(log) : log[i].op \in {"set_current_dir", "metadata"}
                   /\ CommandRuns(ProgMake, << ArgModulesInstall >>) = {}
                   /\ CommandRuns(ProgCp, << >>) = {}
            /\ stage_result = notFound => NotFoundAt(BzImagePath) # {}

\* In a full run, after a successful compilation, the image was not found.
C18_ImageAbsentInFullRun ==
    /\ executed = << "kernel_compile", "kernel_install" >>
    /\ NotFoundAt(BzImagePath) # {}
    /\ StageFailed

\* The command at position i of log ran and exited with status 0.
Succeeded(i) == log[i].outcome = "exited" /\ log[i].code = 0

FullBuilds == CommandRuns(ProgMake, << ArgJ >>)

\* The fetch of the tarball, by the downloader of this run.
Fetches ==
    CommandRuns(ProgCurl, << ArgFL, Unwrap(config).download_link >>)
      \cup CommandRuns(ProgWget, << Unwrap(config).download_link >>)

\* C19: kernel_compile fails with KernelConfigNotFound when the template is
\* absent and with KernelNotConfigured when .config is missing after the
\* regeneration; in both cases `make -j` is not run; and `make -j` is run only
\* after the fetch, the extraction, the copy of the template and the
\* regeneration have succeeded, in that order.
C19_BuildOnlyAfterConfiguration ==
    AfterStage("kernel_compile") =>
        LET c == Unwrap(config)
        IN  /\ NotFoundAt(c.config_file_path) # {} =>
                   /\ stage_result = Some(Err(KernelConfigNotFound(c.config_file_path)))
                   /\ FullBuilds = {}
            /\ NotFoundAt(DotConfig) # {} =>
                   /\ stage_result = Some(Err(KernelNotConfigured(c.kernel_src_dir_path,
                                                                  c.version_new)))
                   /\ FullBuilds = {}
                   /\ \E r \in CommandRuns(ProgMake, << ArgOlddefconfig >>) :
                         Succeeded(r) /\ \A n \in NotFoundAt(DotConfig) : r < n
            /\ \A b \in FullBuilds :
                   \E f \in Fetches,
                      x \in CommandRuns(ProgTar, << ArgJxvf, c.tarball_name >>),
                      t \in CommandRuns(ProgCp, << c.config_file_path, DotConfig >>),
                      r \in CommandRuns(ProgMake, << ArgOlddefconfig >>) :
                       /\ f < x /\ x < t /\ t < r /\ r < b
                       /\ Succeeded(f) /\ Succeeded(x) /\ Succeeded(t) /\ Succeeded(r)

\* The regeneration succeeded, yet .config was not there and no build was run.
C19_NotConfiguredAfterRegeneration ==
    /\ AfterStage("kernel_compile")
    /\ NotFoundAt(DotConfig) # {}
    /\ config # None
    /\ stage_result = Some(Err(KernelNotConfigured(Unwrap(config).kernel_src_dir_path,
                                                   Unwrap(config).version_new)))

\* C20 as stated: whatever entry holds the link path (a file, a link, a
\* directory with or without contents), ensure_symlink deletes it and creates
\* the link: it fails only when the environment refuses a call that the entry
\* allows; after a success the path is a link to the compiled source tree, and
\* so it is again after a second call.
C20_AnyEntryIsReplacedByTheLink ==
    AfterStage("ensure_symlink") =>
        /\ Unwrap(stage_result).ok =>
               link_entry = SymlinkTo(Unwrap(config).kernel_src_dir_path)
        /\ ~Unwrap(stage_result).ok =>
               /\ Last(log).outcome = "io_error"
               /\ FsOutcome(link_entry, Last(log)) # "io_error"

(***************************************************************************)
(* The external-process boundary and the build parallelism (C21, C22)      *)
(***************************************************************************)
\* One of the two command functions was called and has returned.
CommandReturned == IsSome(child) /\ IsSome(stage_result)

ExitedWith(process, zero) ==
    process.end = "exited" /\ ((process.status = 0) = zero)

\* C21: run_command and run_command_output both return CommandExecutionError
\* carrying the program, the joined arguments and the exit status for every
\* non-zero exit, and an I/O error when the spawn or the wait fails;
\* Utf8OutputError is returned exactly by run_command_output for a zero exit
\* whose output is not valid UTF-8, and for a zero exit with valid output
\* run_command_output returns the output text and run_command returns ().
C21_CommandBoundary ==
    CommandReturned =>
        LET process == Unwrap(child)
            fn == executed[1]
            r == Unwrap(stage_result)
        IN  /\ ExitedWith(process, FALSE) =>
                   r = [ok |-> FALSE,
                        val |-> [kind |-> "CommandExecutionError",
                                 command |-> log[1].target,
                                 args |-> JoinWith(log[1].args, << " " >>),
                                 status |-> process.status]]
            /\ process.end \in {"spawn_failed", "wait_failed"} =>
                   r = [ok |-> FALSE, val |-> [kind |-> "IoError"]]
            /\ (~r.ok /\ r.val.kind = "Utf8OutputError") <=>
                   /\ fn = "run_command_output"
                   /\ ExitedWith(process, TRUE)
                   /\ ~process.utf8
            /\ (ExitedWith(process, TRUE) /\ fn = "run_command") =>
                   r = [ok |-> TRUE, val |-> << >>]
            /\ (ExitedWith(process, TRUE) /\ fn = "run_command_output" /\ process.utf8) =>
                   r = [ok |-> TRUE, val |-> process.stdout]

\* A child that fails and writes bytes that are no text: the failure is reported.
C21_FailedChildWithInvalidOutput ==
    /\ CommandReturned
    /\ executed = << "run_command_output" >>
    /\ ExitedWith(Unwrap(child), FALSE)
    /\ ~Unwrap(child).utf8
    /\ ~Unwrap(stage_result).ok
    /\ Unwrap(stage_result).val.kind = "CommandExecutionError"

\* The number available_parallelism() returned to the call made last.
CoresAvailable == log[1].code

FlooredAtOne(d) == IF d > 1 THEN d ELSE 1

\* C22: get_cores(free) returns max(1, n - free), written in decimal, for every
\* core count n >= 1 and every free >= 0, also when free >= n (no wrapped
\* difference is returned); kernel_compile passes `-j` the value for free = 1.
C22_CoresIsFlooredDifference ==
    /\ (executed = << "get_cores" >> /\ log[1].outcome = "ok") =>
           /\ CoresAvailable >= 1
           /\ stage_result = Some(Ok(U32Display(FlooredAtOne(CoresAvailable - free))))
    /\ (executed = << "kernel_compile" >> /\ log[1].outcome = "ok") =>
           /\ Len(log) = 2
           /\ log[2].target = << "m", "a", "k", "e" >>
           /\ log[2].args =
                  << << "-", "j" >>, U32Display(FlooredAtOne(CoresAvailable - 1)) >>

\* More cores are to be left free than there are.
C22_MoreFreeThanCores ==
    /\ executed = << "get_cores" >>
    /\ log[1].outcome = "ok"
    /\ free > CoresAvailable
    /\ stage_result = Some(Ok(<< "1" >>))

(***************************************************************************)
(* The Config of a run, retries and rollback (C23 - C25)                   *)
(***************************************************************************)
StageExecuted == executed # << >>

\* C23: the Config is constructed once, before any stage, and is not changed
\* afterwards: while Config::new has not succeeded nothing is executed and no
\* operation is attempted, a run whose Config::new failed never executes a stage,
\* the Config of a run is always the one Config::new made from the arguments,
\* and whenever a stage has been executed version_old is absent or strictly
\* less than version_new.
C23_ConfigBuiltOnceBeforeStages ==
    /\ pc = "config_new" => IsNone(config) /\ run_result = None
    /\ IsNone(config) => ~StageExecuted /\ log = << >>
    /\ (ConfigDone /\ ~ConfigNew(args).ok) =>
           /\ IsNone(config)
           /\ run_result = Some(ConfigNew(args))
    /\ IsSome(config) =>
           /\ ConfigDone
           /\ ConfigNew(args) = [ok |-> TRUE, val |-> Unwrap(config)]
    /\ StageExecuted =>
           LET c == Unwrap(config)
           IN  \/ c.version_old = << >>
               \/ /\ c.version_old # << c.version_new >>
                  /\ OrderKey(c.version_old[1]) < OrderKey(c.version_new)

\* Every stage of the full mode has run with the Config made from the arguments.
C23_AllStagesRunWithOneConfig ==
    /\ Len(executed) = 6
    /\ IsSome(config)
    /\ IsSome(Unwrap(config).version_old)
    /\ Unwrap(config).version_new.major = Unwrap(Unwrap(config).version_old).major
    /\ Unwrap(config).version_new.minor = Unwrap(Unwrap(config).version_old).minor

\* C24: no stage is executed twice in a run, a run executes at most as many
\* stages as its mode lists, and every run ends: the process exits with the
\* outcome of run(), success or an error.
C24_NoRetryAndTermination ==
    /\ [](\A i, j \in 1 .. Len(executed) : executed[i] = executed[j] => i = j)
    /\ [](Len(executed) <= Len(ModeStages(args.command)))
    /\ [](pc = "exited" => IsSome(run_result) /\ IsSome(exit_code))
    /\ <>(pc = "exited")

\* A run that executed every stage of its mode and failed in the last one.
C24_LastStageFailed ==
    /\ pc = "exited"
    /\ args.command = Some("DkmsInstall")
    /\ Len(executed) = 4
    /\ StageFailed

\* The operation of a log entry did what it was called for.
EntrySucceeded(e) ==
    \/ e.outcome \in {"ok", "is_dir", "not_dir"}
    \/ e.outcome = "exited" /\ e.code = 0
    \/ e.op = "symlink_metadata" /\ e.outcome = "not_found"

\* C25: no rollback.  A stage that fails attempts no operation after the one
\* that failed (every operation before its last one succeeded), the run has
\* then returned, and from then on no stage is called and no filesystem or
\* external-command operation is attempted: the operations of the completed
\* stages are the last that touched what they produced.
C25_NoRollback ==
    /\ [](StageFailed =>
            /\ Finished
            /\ \A i \in 1 .. (Len(log) - 1) : EntrySucceeded(log[i]))
    /\ [][StageFailed =>
            /\ executed' = executed
            /\ log' = log
            /\ stage_result' = stage_result
            /\ pc' = "exited"]_vars

\* The installation fails at its last link, after the compilation and the
\* modules, the image and the first link of the installation.
C25_LastLinkFailedAfterInstallSteps ==
    /\ pc = "exited"
    /\ executed = << "kernel_compile", "kernel_install" >>
    /\ StageFailed
    /\ Last(log).op = "symlink"
    /\ Last(log).target = PathJoin(ModulesInstallPath(Unwrap(config)), SourceName)
    /\ Last(log).outcome = "io_error"

(***************************************************************************)
(* Paths and names derived from the Config (C26 - C30)                     *)
(***************************************************************************)
\* The Config of an installation of version v with the given suffix.
ConfigFor(v, suffix) ==
    ConfigNew([args EXCEPT !.new = v, !.suffix = suffix, !.old = None,
                           !.command = Some("KernelInstall")]).val

\* The copies of the kernel image made by the stage called last.
ImageCopies == CommandRuns(ProgCp, << BzImagePath >>)

\* C26: the boot-image path is "/boot/vmlinuz-M.N" whatever the patch and the
\* suffix are: every version with the same major and minor, with any suffix,
\* has the path of this run, and kernel_install copies the image to it.
C26_BootImagePathFromMajorMinor ==
    IsSome(config) =>
        LET c == Unwrap(config)
            path == << "/", "b", "o", "o", "t", "/", "v", "m", "l", "i", "n", "u", "z", "-" >>
                      \o U32Display(args.new.major) \o << "." >>
                      \o U32Display(args.new.minor)
        IN  /\ c.vmlinuz_install_path = path
            /\ ~StageExecuted =>
                   \A w \in Version, suffix \in Suffixes :
                       (w.major = args.new.major /\ w.minor = args.new.minor) =>
                           ConfigFor(w, suffix).vmlinuz_install_path = path
            /\ AfterStage("kernel_install") =>
                   \A i \in ImageCopies : log[i].args[2] = path

\* The image of a version with a patch number was copied.
C26_PatchedImageCopied ==
    /\ AfterStage("kernel_install")
    /\ args.new.patch # 0
    /\ \E i \in ImageCopies : Succeeded(i)

\* The position of a stage in the calls made so far (0 when it was not called).
CalledAt(name) ==
    IF \E i \in 1 .. Len(executed) : executed[i] = name
    THEN CHOOSE i \in 1 .. Len(executed) : executed[i] = name
    ELSE 0

\* C27: whenever the runner calls dkms_remove, in the dkms-only and the full
\* mode, the Config holds version_old and the old installed identifier, so
\* neither expect() of dkms_remove panics: no run ends in a panic.
C27_DkmsRemovePreconditionHolds ==
    /\ pc # "panicked"
    /\ exit_code # << 101 >>
    /\ (IsSome(config) /\ args.command \in {None, Some("DkmsInstall")}) =>
           /\ Unwrap(config).version_old # << >>
           /\ Unwrap(config).kernel_ident_name_old # << >>
    /\ (pc = "stages" /\ RunArm(args.command)[ip] = "dkms_remove") =>
           /\ args.command \in {None, Some("DkmsInstall")}
           /\ Unwrap(config).version_old = args.old
           /\ Len(args.old) = 1

\* The full mode is about to call dkms_remove, after compiling and installing.
C27_FullModeReachesDkmsRemove ==
    /\ pc = "stages"
    /\ args.command = None
    /\ executed = << "kernel_compile", "kernel_install" >>
    /\ ip = 3

\* The kernel identifiers the removal command of this run can be given.
RemovalIdentifiers ==
    {o.log[2].args[4] : o \in {r \in DkmsRemoveRuns(Unwrap(config)) : Len(r.log) = 2}}

\* C28: in a run that calls both dkms_remove and dkms_install, dkms_remove is
\* called first, and the kernel identifier given to `dkms install -k` differs
\* from every identifier the removal command of the run is given.
C28_RemovalNeverTargetsNewKernel ==
    (CalledAt("dkms_install") # 0) =>
        /\ CalledAt("dkms_remove") # 0
        /\ CalledAt("dkms_remove") < CalledAt("dkms_install")
        /\ (AfterStage("dkms_install") /\ Len(log) = 2) =>
               /\ log[2].args[1] = << "i", "n", "s", "t", "a", "l", "l" >>
               /\ RemovalIdentifiers # {}
               /\ log[2].args[5] \notin RemovalIdentifiers

\* The driver was installed for a kernel that differs from the old one in the
\* patch number only.
C28_InstalledBesideOlderPatch ==
    /\ AfterStage("dkms_install")
    /\ Len(log) = 2
    /\ Succeeded(2)
    /\ args.new.major = Unwrap(args.old).major
    /\ args.new.minor = Unwrap(args.old).minor

\* C30: the tarball name is the source-tree directory name followed by
\* ".tar.xz", the download URL is the URL base, "/" and the tarball name, and
\* the source-tree path is the source base joined with the directory name;
\* kernel_compile fetches that URL with either downloader (curl writes it to
\* the tarball name), extracts the tarball and enters the source-tree path.
C30_DownloadExtractBuildAgree ==
    IsSome(config) =>
        LET c == Unwrap(config)
            tarball == c.kernel_src_dir_name \o << ".", "t", "a", "r", ".", "x", "z" >>
            url == KernelUrlBase \o << "/" >> \o tarball
            tree == << "/", "l", "i", "b", "/", "m", "o", "d", "u", "l", "e", "s", "/" >>
                      \o c.kernel_src_dir_name
        IN  /\ c.tarball_name = tarball
            /\ c.download_link = url
            /\ c.kernel_src_dir_path = tree
            /\ AfterStage("kernel_compile") =>
                   \A i \in 1 .. Len(log) :
                       /\ log[i].target = ProgCurl =>
                              log[i].args = << ArgFL, url, ArgO, tarball >>
                       /\ log[i].target = ProgWget => log[i].args = << url >>
                       /\ log[i].target = ProgTar => log[i].args = << ArgJxvf, tarball >>
                       /\ (log[i].op = "set_current_dir" /\ i > 2) => log[i].target = tree
                       /\ (i = 3) => log[i].target =
                              (IF args.downloader = "Curl" THEN ProgCurl ELSE ProgWget)

\* A version without a patch number was fetched by wget, extracted and entered.
C30_PatchZeroFetchedByWget ==
    /\ AfterStage("kernel_compile")
    /\ args.new.patch = 0
    /\ Len(log) >= 5
    /\ log[3].target = ProgWget
    /\ log[5].op = "set_current_dir"
    /\ log[5].outcome = "ok"

\* The profile name mkinitcpio was run with.
ProfilePassed == log[1].args[2]

\* The profile name of version v with the suffix of this run.
ProfileOf(v) == MkinitcpioProfileName(ConfigFor(v, args.suffix))

SamePair(v, w) == v.major = w.major /\ v.minor = w.minor

\* C29 as stated: the profile name is the same for every version of the same
\* major and minor, and no version of another (major, minor) pair has it.
C29_ProfileNameInjective ==
    AfterStage("mkinitcpio") =>
        \A w \in ProfileVersions :
            (ProfileOf(w) = ProfilePassed) <=> SamePair(w, args.new)

\* C29 amended: the profile name is "linux", the major, the minor, "_" and the
\* suffix, the numbers in decimal with nothing between them; it is the same
\* for every version of the same major and minor, and two versions of different
\* (major, minor) pairs whose majors have the same number of digits never
\* have the same name.
C29_ProfileNameFromMajorMinorSuffix ==
    AfterStage("mkinitcpio") =>
        /\ log[1].target = << "m", "k", "i", "n", "i", "t", "c", "p", "i", "o" >>
        /\ ProfilePassed =
               << "l", "i", "n", "u", "x" >> \o U32Display(args.new.major)
                   \o U32Display(args.new.minor) \o << "_" >> \o args.suffix
        /\ \A w \in ProfileVersions :
               /\ SamePair(w, args.new) => ProfileOf(w) = ProfilePassed
               /\ (~SamePair(w, args.new)
                     /\ Len(U32Display(w.major)) = Len(U32Display(args.new.major))) =>
                      ProfileOf(w) # ProfilePassed

\* The profile of version 11.5 is the one of version 1.15.
C29_ProfileSharedByTwoVersions ==
    /\ AfterStage("mkinitcpio")
    /\ args.new.major = 11
    /\ args.new.minor = 5
    /\ ProfilePassed = ProfileOf([major |-> 1, minor |-> 15, patch |-> 0])

====
